---- MODULE Spec2Model ----
(***************************************************************************)
(* Pedersen verifiable secret sharing (share/vss/pedersen/vss.go): the     *)
(* Dealer, the Verifier and the Aggregator both embed.                     *)
(*                                                                         *)
(* Group elements are written by their discrete logarithm modulo           *)
(* GroupOrder (the point g^x is the number x), so point equality, the      *)
(* Diffie-Hellman exchange and the share/commitment check are computed     *)
(* and not assumed.  A hash is the tuple of what was written to it, a      *)
(* Schnorr signature the pair (signer's public key, message).              *)
(***************************************************************************)
EXTENDS Integers, Sequences, FiniteSets, TLC

\* ------------------------------------------------------------------ bounds
NumVerifiers == 3

\* ------------------------------------------------- the Suite (external)
GroupOrder == 11

\* uint32(x) is x % Uint32.  The width is scaled from 32 to 16 bits: the
\* model checker's own integers are 32 bits wide.
Uint32 == 2 ^ 16

PointMul(x) == x % GroupOrder

\* ------------------------------------------------------------ participants
Indices == 0 .. (NumVerifiers - 1)
DealerId == NumVerifiers
Participants == 0 .. NumVerifiers

DealerLong == 1
VerifierLong(i) == i + 2
DealerPub == PointMul(DealerLong)
Verifiers == [k \in 1 .. NumVerifiers |-> PointMul(VerifierLong(k - 1))]

\* --------------------------------------------------------- Status constants
StatusComplaint == FALSE
StatusApproval == TRUE

\* ------------------------------------------------------------ error values
ErrNone == "nil"
ErrDealAlreadyProcessed == "vss: verifier already received a deal"
ErrInvalidT == "vss: invalid t received in Deal"
ErrIncompatibleT == "vss: incompatible threshold - potential attack"
ErrDealSid == "vss: find different sessionIDs from Deal"
ErrDealIndex == "vss: index out of bounds in Deal"
ErrShare == "vss: share does not verify against commitments in Deal"
ErrRespSid == "vss: receiving inconsistent sessionID in response"
ErrRespIndex == "vss: index out of bounds in response"
ErrSignature == "schnorr: invalid signature"
ErrAddIndex == "vss: index out of bounds in Complaint"
ErrDuplicate == "vss: already existing response from same origin"
ErrJustIndex == "vss: index out of bounds in justification"
ErrNoComplaint == "vss: no complaints received for this justification"
ErrJustApproval == "vss: justification received for an approval"
ErrNoDealBeforeResponse == "verifier: need to receive deal before response"
ErrWrongIndex == "vss: verifier got wrong index from deal"
ErrDecrypt == "cipher: message authentication failed"
ErrDecode == "protobuf: decoding failed"

VerifyDealErrors == {ErrInvalidT, ErrIncompatibleT, ErrDealSid, ErrDealIndex, ErrShare}

\* ------------------------------------------------------- pure functions
\* validT with the lower bound off by one
validTFromOne(t, n) == t >= 1 /\ t <= n /\ (t % Uint32) = t

validT(t, n) == t >= 2 /\ t <= n /\ (t % Uint32) = t

MinimumT(n) == (n + 1) \div 2

findPub(verifiers, idx) ==
  IF idx >= Len(verifiers)
    THEN [ok |-> FALSE, pub |-> 0]
    ELSE [ok |-> TRUE, pub |-> verifiers[idx + 1]]

sessionID(dealer, verifiers, commitments, t) ==
  <<"sid", dealer, verifiers, commitments, t % Uint32>>

NilBytes == <<>>

ResponseHash(r) == <<"response", r.SessionID, r.Index, r.Status>>

SchnorrSign(long, msg) == <<PointMul(long), msg>>

SchnorrVerify(pub, msg, sig) == sig = <<pub, msg>>

\* share.PriPoly.Eval / share.PubPoly.Eval evaluate at x = 1 + i
RECURSIVE PolyEval(_, _, _)
PolyEval(coeffs, x, j) ==
  IF j > Len(coeffs) THEN 0
  ELSE (coeffs[j] + x * PolyEval(coeffs, x, j + 1)) % GroupOrder

PriPolyEval(coeffs, i) == PolyEval(coeffs, (1 + i) % GroupOrder, 1)

PriPolyCommit(coeffs) == [j \in 1 .. Len(coeffs) |-> PointMul(coeffs[j])]

PubPolyEval(commitments, i) == PolyEval(commitments, (1 + i) % GroupOrder, 1)

\* ------------------------------------------------------------------ Deal
MakeDeal(sid, i, v, t, commitments) ==
  [SessionID |-> sid, I |-> i, V |-> v, T |-> t, Commitments |-> commitments]

\* protobuf.Encode / protobuf.DecodeWithConstructors of a Deal
DealMarshalBinary(d) ==
  <<"deal", d.SessionID, <<d.I, d.V>>, d.T % Uint32, d.Commitments>>

DealUnmarshalBinary(buff) ==
  IF Len(buff) = 5 /\ buff[1] = "deal"
    THEN [err |-> ErrNone,
          deal |-> MakeDeal(buff[2], buff[3][1], buff[3][2], buff[4], buff[5])]
    ELSE [err |-> ErrDecode, deal |-> MakeDeal(NilBytes, 0, 0, 0, <<>>)]

\* ---------------------------------------------------------------- Dealer
\* share.NewPriPoly: coefficient 0 is the secret, the others come from the
\* random stream
NewPriPoly(t, secret, stream) ==
  [j \in 1 .. t |-> IF j = 1 THEN secret % GroupOrder ELSE stream[j - 1]]

context(dealer, verifiers) == <<"context", dealer, verifiers>>

newAggregator(commitments, t, sid) ==
  [commits |-> commitments, t |-> t, sid |-> sid, responses |-> <<>>,
   deal |-> <<>>, badDealer |-> FALSE]

NewEmptyAggregator ==
  [commits |-> <<>>, t |-> 0, sid |-> NilBytes, responses |-> <<>>,
   deal |-> <<>>, badDealer |-> FALSE]

\* NewDealer's body with a session ID taken over another threshold
BuildDealerSidOfNextT(secret, t, stream) ==
  LET f == NewPriPoly(t, secret, stream)
      commits == PriPolyCommit(f)
      sid == sessionID(DealerPub, Verifiers, commits, t + 1)
  IN  [secret |-> secret, t |-> t, secretPoly |-> f, secretCommits |-> commits,
       sessionID |-> sid,
       deals |-> [k \in 1 .. NumVerifiers |->
                    MakeDeal(sid, k - 1, PriPolyEval(f, k - 1), t % Uint32, commits)],
       hkdfContext |-> context(DealerPub, Verifiers)]

\* the body of NewDealer after the validT check
BuildDealer(secret, t, stream) ==
  LET f == NewPriPoly(t, secret, stream)
      commits == PriPolyCommit(f)
      sid == sessionID(DealerPub, Verifiers, commits, t)
  IN  [secret |-> secret, t |-> t, secretPoly |-> f, secretCommits |-> commits,
       sessionID |-> sid,
       deals |-> [k \in 1 .. NumVerifiers |->
                    MakeDeal(sid, k - 1, PriPolyEval(f, k - 1), t % Uint32, commits)],
       hkdfContext |-> context(DealerPub, Verifiers)]

NewDealer(secret, t, stream) ==
  IF ~validT(t, NumVerifiers)
    THEN [err |-> "dealer: t invalid", d |-> <<>>]
    ELSE [err |-> ErrNone, d |-> <<BuildDealer(secret, t, stream)>>]

\* ------------------------------------------------- sealed envelope (dh.go)
PointMarshalBinary(x) == <<"point", x>>

PointUnmarshalOk(buff) == Len(buff) = 2 /\ buff[1] = "point"

dhExchange(ownPrivate, remotePublic) == (ownPrivate * remotePublic) % GroupOrder

newAEAD(preSharedKey, ctx) == <<"hkdf", preSharedKey, ctx>>

ZeroNonce == <<0>>

Seal(key, nonce, plaintext, aad) == <<key, nonce, aad, plaintext>>

Open(key, nonce, ciphertext, aad) ==
  IF Len(ciphertext) = 4 /\ ciphertext[1] = key /\ ciphertext[2] = nonce
     /\ ciphertext[3] = aad
    THEN [err |-> ErrNone, plain |-> ciphertext[4]]
    ELSE [err |-> ErrDecrypt, plain |-> <<>>]

\* Dealer.EncryptedDeal's sealing of a deal for the public key vPub, with
\* the ephemeral secret dhSecret
SealDeal(deal, vPub, dhSecret, hkdfContext) ==
  LET dhPublic == PointMul(dhSecret)
      dhPublicBuff == PointMarshalBinary(dhPublic)
      pre == dhExchange(dhSecret, vPub)
      gcm == newAEAD(pre, hkdfContext)
  IN  [DHKey |-> dhPublicBuff,
       Signature |-> SchnorrSign(DealerLong, dhPublicBuff),
       Nonce |-> ZeroNonce,
       Cipher |-> Seal(gcm, ZeroNonce, DealMarshalBinary(deal), hkdfContext)]

\* Dealer.EncryptedDeal that seals the deal of the next verifier
EncryptedDealOfNext(d, i, dhSecret) ==
  LET f == findPub(Verifiers, i % Uint32)
  IN  IF ~f.ok
        THEN [err |-> "dealer: wrong index to generate encrypted deal", e |-> <<>>]
        ELSE [err |-> ErrNone,
              e |-> <<SealDeal(d.deals[((i + 1) % Len(Verifiers)) + 1], f.pub,
                               dhSecret, d.hkdfContext)>>]

EncryptedDeal(d, i, dhSecret) ==
  LET f == findPub(Verifiers, i % Uint32)
  IN  IF ~f.ok
        THEN [err |-> "dealer: wrong index to generate encrypted deal", e |-> <<>>]
        ELSE [err |-> ErrNone,
              e |-> <<SealDeal(d.deals[i + 1], f.pub, dhSecret, d.hkdfContext)>>]

\* decryptDeal that opens the envelope before it verifies the signature
decryptDealOpensFirst(i, e) ==
  LET none == MakeDeal(NilBytes, 0, 0, 0, <<>>)
      ctx == context(DealerPub, Verifiers)
  IN  IF ~PointUnmarshalOk(e.DHKey)
        THEN [err |-> ErrDecode, deal |-> none]
        ELSE LET pre == dhExchange(VerifierLong(i), e.DHKey[2])
                 gcm == newAEAD(pre, ctx)
                 opened == Open(gcm, e.Nonce, e.Cipher, ctx)
             IN  IF opened.err # ErrNone
                   THEN [err |-> opened.err, deal |-> none]
                 ELSE IF ~SchnorrVerify(DealerPub, e.DHKey, e.Signature)
                   THEN [err |-> ErrSignature, deal |-> none]
                 ELSE DealUnmarshalBinary(opened.plain)

\* Verifier.decryptDeal for the verifier at index i
decryptDeal(i, e) ==
  LET none == MakeDeal(NilBytes, 0, 0, 0, <<>>)
      ctx == context(DealerPub, Verifiers)
  IN  IF ~SchnorrVerify(DealerPub, e.DHKey, e.Signature)
        THEN [err |-> ErrSignature, deal |-> none]
        ELSE IF ~PointUnmarshalOk(e.DHKey)
        THEN [err |-> ErrDecode, deal |-> none]
        ELSE LET pre == dhExchange(VerifierLong(i), e.DHKey[2])
                 gcm == newAEAD(pre, ctx)
                 opened == Open(gcm, e.Nonce, e.Cipher, ctx)
             IN  IF opened.err # ErrNone
                   THEN [err |-> opened.err, deal |-> none]
                   ELSE DealUnmarshalBinary(opened.plain)

\* ------------------------------------------------------------ Aggregator
Ret(a, err) == [a |-> a, err |-> err]

\* the share check against the constant commitment only
ShareVerifiesConstantTerm(d) == PointMul(d.V) = d.Commitments[1]

ShareVerifies(d) == PointMul(d.V) = PubPolyEval(d.Commitments, d.I)

\* VerifyDeal that does not refuse a second deal
VerifyDealAgain(a, d, inclusion) ==
  LET a1 == IF a.deal = <<>>
              THEN [a EXCEPT !.commits = d.Commitments, !.sid = d.SessionID,
                             !.deal = <<d>>, !.t = d.T]
              ELSE a
  IN  IF ~validT(d.T, Len(Verifiers)) THEN Ret(a1, ErrInvalidT)
      ELSE IF d.T # a1.t THEN Ret(a1, ErrIncompatibleT)
      ELSE IF a1.sid # d.SessionID THEN Ret(a1, ErrDealSid)
      ELSE IF d.I < 0 \/ d.I >= Len(Verifiers) THEN Ret(a1, ErrDealIndex)
      ELSE IF ~ShareVerifies(d) THEN Ret(a1, ErrShare)
      ELSE Ret(a1, ErrNone)

VerifyDeal(a, d, inclusion) ==
  IF a.deal # <<>> /\ inclusion
    THEN Ret(a, ErrDealAlreadyProcessed)
    ELSE
      LET a1 == IF a.deal = <<>>
                  THEN [a EXCEPT !.commits = d.Commitments, !.sid = d.SessionID,
                                 !.deal = <<d>>, !.t = d.T]
                  ELSE a
      IN  IF ~validT(d.T, Len(Verifiers)) THEN Ret(a1, ErrInvalidT)
          ELSE IF d.T # a1.t THEN Ret(a1, ErrIncompatibleT)
          ELSE IF a1.sid # d.SessionID THEN Ret(a1, ErrDealSid)
          ELSE IF d.I < 0 \/ d.I >= Len(Verifiers) THEN Ret(a1, ErrDealIndex)
          ELSE IF ~ShareVerifies(d) THEN Ret(a1, ErrShare)
          ELSE Ret(a1, ErrNone)

NewResponse(sid, index, status, signature) ==
  [SessionID |-> sid, Index |-> index, Status |-> status, Signature |-> signature]

\* cleanVerifiers that keeps the approvals only and writes every other slot
cleanVerifiersKeepApprovals(a) ==
  [a EXCEPT !.responses =
     [i \in 0 .. (Len(Verifiers) - 1) |->
        IF i \in DOMAIN a.responses /\ a.responses[i].Status = StatusApproval
          THEN a.responses[i]
          ELSE NewResponse(a.sid, i, StatusComplaint, NilBytes)]]

\* cleanVerifiers that stops one verifier short
cleanVerifiersSkipLast(a) ==
  [a EXCEPT !.responses =
     [i \in (0 .. (Len(Verifiers) - 2)) \cup DOMAIN a.responses |->
        IF i \in DOMAIN a.responses
          THEN a.responses[i]
          ELSE NewResponse(a.sid, i, StatusComplaint, NilBytes)]]

cleanVerifiers(a) ==
  [a EXCEPT !.responses =
     [i \in 0 .. (Len(Verifiers) - 1) |->
        IF i \in DOMAIN a.responses
          THEN a.responses[i]
          ELSE NewResponse(a.sid, i, StatusComplaint, NilBytes)]]

SetThreshold(a, t) == [a EXCEPT !.t = t]

\* addResponse without the duplicate check
addResponseOverwrite(a, r) ==
  IF ~findPub(Verifiers, r.Index).ok THEN Ret(a, ErrAddIndex)
  ELSE Ret([a EXCEPT !.responses = (r.Index :> r) @@ a.responses], ErrNone)

\* addResponse that keeps only the response it stores
addResponseForgetsOthers(a, r) ==
  IF ~findPub(Verifiers, r.Index).ok THEN Ret(a, ErrAddIndex)
  ELSE IF r.Index \in DOMAIN a.responses THEN Ret(a, ErrDuplicate)
  ELSE Ret([a EXCEPT !.responses = (r.Index :> r)], ErrNone)

addResponse(a, r) ==
  IF ~findPub(Verifiers, r.Index).ok THEN Ret(a, ErrAddIndex)
  ELSE IF r.Index \in DOMAIN a.responses THEN Ret(a, ErrDuplicate)
  ELSE Ret([a EXCEPT !.responses = (r.Index :> r) @@ a.responses], ErrNone)

\* verifyResponse that looks at the index and the signature before the session
verifyResponseSignatureFirst(a, r) ==
  LET f == findPub(Verifiers, r.Index)
  IN  IF ~f.ok THEN Ret(a, ErrRespIndex)
      ELSE IF ~SchnorrVerify(f.pub, ResponseHash(r), r.Signature)
        THEN Ret(a, ErrSignature)
      ELSE IF a.sid # NilBytes /\ r.SessionID # a.sid THEN Ret(a, ErrRespSid)
      ELSE addResponse(a, r)

\* verifyResponse that keeps a badly signed response while reporting it
verifyResponseKeepsRejected(a, r) ==
  IF a.sid # NilBytes /\ r.SessionID # a.sid THEN Ret(a, ErrRespSid)
  ELSE LET f == findPub(Verifiers, r.Index)
       IN  IF ~f.ok THEN Ret(a, ErrRespIndex)
           ELSE IF ~SchnorrVerify(f.pub, ResponseHash(r), r.Signature)
             THEN Ret(addResponse(a, r).a, ErrSignature)
           ELSE addResponse(a, r)

verifyResponse(a, r) ==
  IF a.sid # NilBytes /\ r.SessionID # a.sid THEN Ret(a, ErrRespSid)
  ELSE LET f == findPub(Verifiers, r.Index)
       IN  IF ~f.ok THEN Ret(a, ErrRespIndex)
           ELSE IF ~SchnorrVerify(f.pub, ResponseHash(r), r.Signature)
             THEN Ret(a, ErrSignature)
           ELSE addResponse(a, r)

\* verifyJustification that also blames the dealer for a justification of an
\* approval
verifyJustificationLatchEarly(a, j) ==
  IF ~findPub(Verifiers, j.Index).ok THEN Ret(a, ErrJustIndex)
  ELSE IF j.Index \notin DOMAIN a.responses THEN Ret(a, ErrNoComplaint)
  ELSE IF a.responses[j.Index].Status # StatusComplaint
    THEN Ret([a EXCEPT !.badDealer = TRUE], ErrJustApproval)
  ELSE LET v == VerifyDeal(a, j.Deal, FALSE)
       IN  IF v.err # ErrNone
             THEN Ret([v.a EXCEPT !.badDealer = TRUE], v.err)
             ELSE Ret([v.a EXCEPT !.responses[j.Index].Status = StatusApproval],
                      ErrNone)

\* verifyJustification that upgrades every stored complaint
verifyJustificationUpgradeAll(a, j) ==
  IF ~findPub(Verifiers, j.Index).ok THEN Ret(a, ErrJustIndex)
  ELSE IF j.Index \notin DOMAIN a.responses THEN Ret(a, ErrNoComplaint)
  ELSE IF a.responses[j.Index].Status # StatusComplaint THEN Ret(a, ErrJustApproval)
  ELSE LET v == VerifyDeal(a, j.Deal, FALSE)
       IN  IF v.err # ErrNone
             THEN Ret([v.a EXCEPT !.badDealer = TRUE], v.err)
             ELSE Ret([v.a EXCEPT !.responses =
                         [i \in DOMAIN v.a.responses |->
                            [v.a.responses[i] EXCEPT !.Status = StatusApproval]]],
                      ErrNone)

\* verifyJustification that replaces the bound deal by the justified one
verifyJustificationAdoptsDeal(a, j) ==
  IF ~findPub(Verifiers, j.Index).ok THEN Ret(a, ErrJustIndex)
  ELSE IF j.Index \notin DOMAIN a.responses THEN Ret(a, ErrNoComplaint)
  ELSE IF a.responses[j.Index].Status # StatusComplaint THEN Ret(a, ErrJustApproval)
  ELSE LET v == VerifyDeal(a, j.Deal, FALSE)
       IN  IF v.err # ErrNone
             THEN Ret([v.a EXCEPT !.badDealer = TRUE], v.err)
             ELSE Ret([v.a EXCEPT !.responses[j.Index].Status = StatusApproval,
                                  !.deal = <<j.Deal>>],
                      ErrNone)

\* verifyJustification that examines the deal before the slot
verifyJustificationDealFirst(a, j) ==
  LET v == VerifyDeal(a, j.Deal, FALSE)
  IN  IF v.err # ErrNone THEN Ret([v.a EXCEPT !.badDealer = TRUE], v.err)
      ELSE IF ~findPub(Verifiers, j.Index).ok THEN Ret(v.a, ErrJustIndex)
      ELSE IF j.Index \notin DOMAIN a.responses THEN Ret(v.a, ErrNoComplaint)
      ELSE IF a.responses[j.Index].Status # StatusComplaint THEN Ret(v.a, ErrJustApproval)
      ELSE Ret([v.a EXCEPT !.responses[j.Index].Status = StatusApproval], ErrNone)

verifyJustification(a, j) ==
  IF ~findPub(Verifiers, j.Index).ok THEN Ret(a, ErrJustIndex)
  ELSE IF j.Index \notin DOMAIN a.responses THEN Ret(a, ErrNoComplaint)
  ELSE IF a.responses[j.Index].Status # StatusComplaint THEN Ret(a, ErrJustApproval)
  ELSE LET v == VerifyDeal(a, j.Deal, FALSE)
       IN  IF v.err # ErrNone
             THEN Ret([v.a EXCEPT !.badDealer = TRUE], v.err)
             ELSE Ret([v.a EXCEPT !.responses[j.Index].Status = StatusApproval],
                      ErrNone)

\* the loop of EnoughApprovals over the response map
RECURSIVE CountApprovals(_, _)
CountApprovals(responses, keys) ==
  IF keys = {} THEN 0
  ELSE LET k == CHOOSE x \in keys : TRUE
       IN  (IF responses[k].Status = StatusApproval THEN 1 ELSE 0)
           + CountApprovals(responses, keys \ {k})

EnoughApprovals(a) == CountApprovals(a.responses, DOMAIN a.responses) >= a.t

\* the loop of DealCertified over the verifiers: <<absentVerifiers, complaints>>
RECURSIVE CertifiedLoop(_, _)
CertifiedLoop(a, i) ==
  IF i >= Len(Verifiers) THEN <<0, 0>>
  ELSE LET rest == CertifiedLoop(a, i + 1)
       IN  IF i \notin DOMAIN a.responses THEN <<rest[1] + 1, rest[2]>>
           ELSE IF a.responses[i].Status = StatusComplaint
             THEN <<rest[1], rest[2] + 1>>
           ELSE rest

\* DealCertified with the complaint bound off by one
DealCertifiedStrict(a) ==
  LET c == CertifiedLoop(a, 0)
  IN  EnoughApprovals(a) /\ ~(c[1] > 0 \/ a.badDealer \/ c[2] >= a.t)

\* DealCertified that forgets the badDealer flag
DealCertifiedNoFlag(a) ==
  LET c == CertifiedLoop(a, 0)
  IN  EnoughApprovals(a) /\ ~(c[1] > 0 \/ c[2] > a.t)

DealCertified(a) ==
  LET c == CertifiedLoop(a, 0)
      absentVerifiers == c[1]
      complaints == c[2]
      tooMuchComplaints == absentVerifiers > 0 \/ a.badDealer \/ complaints > a.t
  IN  EnoughApprovals(a) /\ ~tooMuchComplaints

\* -------------------------------------------------- Dealer and Verifier
JustificationHash(j) ==
  <<"justification", j.SessionID, j.Index, DealMarshalBinary(j.Deal)>>

NewJustification(sid, index, deal, signature) ==
  [SessionID |-> sid, Index |-> index, Deal |-> deal, Signature |-> signature]

\* Dealer.ProcessResponse that justifies with the deal of the next verifier
DealerProcessResponseNextDeal(d, a, r) ==
  LET v == verifyResponse(a, r)
  IN  IF v.err # ErrNone THEN [a |-> v.a, err |-> v.err, out |-> <<>>]
      ELSE IF r.Status = StatusApproval THEN [a |-> v.a, err |-> ErrNone, out |-> <<>>]
      ELSE LET j == NewJustification(d.sessionID, r.Index,
                                     d.deals[((r.Index + 1) % NumVerifiers) + 1], NilBytes)
           IN  [a |-> v.a, err |-> ErrNone,
                out |-> <<[j EXCEPT !.Signature =
                                 SchnorrSign(DealerLong, JustificationHash(j))]>>]

\* Dealer.ProcessResponse: the new Aggregator, the error and the
\* Justification returned (<<>> for none)
DealerProcessResponse(d, a, r) ==
  LET v == verifyResponse(a, r)
  IN  IF v.err # ErrNone THEN [a |-> v.a, err |-> v.err, out |-> <<>>]
      ELSE IF r.Status = StatusApproval THEN [a |-> v.a, err |-> ErrNone, out |-> <<>>]
      ELSE LET j == NewJustification(d.sessionID, r.Index, d.deals[r.Index + 1], NilBytes)
           IN  [a |-> v.a, err |-> ErrNone,
                out |-> <<[j EXCEPT !.Signature =
                                 SchnorrSign(DealerLong, JustificationHash(j))]>>]

\* SecretCommit that asks for the approvals only
SecretCommitEnoughOnly(d, a) ==
  IF ~EnoughApprovals(a) THEN <<>> ELSE <<PointMul(d.secret)>>

\* Dealer.SecretCommit: <<>> is the nil point
SecretCommit(d, a) ==
  IF ~EnoughApprovals(a) \/ ~DealCertified(a) THEN <<>> ELSE <<PointMul(d.secret)>>

\* ProcessEncryptedDeal that forgets to turn the response into a complaint
ProcessEncryptedDealApproves(a, index, e) ==
  LET dec == decryptDeal(index, e)
      d == dec.deal
  IN  IF dec.err # ErrNone THEN [a |-> a, err |-> dec.err, out |-> <<>>]
      ELSE IF d.I # index THEN [a |-> a, err |-> ErrWrongIndex, out |-> <<>>]
      ELSE
        LET sid == sessionID(DealerPub, Verifiers, d.Commitments, d.T)
            v == VerifyDeal(a, d, TRUE)
            r0 == NewResponse(sid, index % Uint32, StatusApproval, NilBytes)
            r == [r0 EXCEPT !.Signature =
                    SchnorrSign(VerifierLong(index), ResponseHash(r0))]
            ar == addResponse(v.a, r)
        IN  IF v.err = ErrDealAlreadyProcessed
              THEN [a |-> v.a, err |-> v.err, out |-> <<>>]
            ELSE IF ar.err # ErrNone THEN [a |-> ar.a, err |-> ar.err, out |-> <<>>]
            ELSE [a |-> ar.a, err |-> ErrNone, out |-> <<r>>]

\* Verifier.ProcessEncryptedDeal of the verifier at position index
ProcessEncryptedDeal(a, index, e) ==
  LET dec == decryptDeal(index, e)
      d == dec.deal
  IN  IF dec.err # ErrNone THEN [a |-> a, err |-> dec.err, out |-> <<>>]
      ELSE IF d.I # index THEN [a |-> a, err |-> ErrWrongIndex, out |-> <<>>]
      ELSE
        LET sid == sessionID(DealerPub, Verifiers, d.Commitments, d.T)
            v == VerifyDeal(a, d, TRUE)
            r0 == NewResponse(sid, index % Uint32,
                              IF v.err # ErrNone THEN StatusComplaint ELSE StatusApproval,
                              NilBytes)
            r == [r0 EXCEPT !.Signature =
                    SchnorrSign(VerifierLong(index), ResponseHash(r0))]
            ar == addResponse(v.a, r)
        IN  IF v.err = ErrDealAlreadyProcessed
              THEN [a |-> v.a, err |-> v.err, out |-> <<>>]
            ELSE IF ar.err # ErrNone THEN [a |-> ar.a, err |-> ar.err, out |-> <<>>]
            ELSE [a |-> ar.a, err |-> ErrNone, out |-> <<r>>]

\* Verifier.ProcessResponse without the test for a deal
VerifierProcessResponseNoGate(a, resp) == verifyResponse(a, resp)

VerifierProcessResponse(a, resp) ==
  IF a.deal = <<>> THEN Ret(a, ErrNoDealBeforeResponse) ELSE verifyResponse(a, resp)

\* Verifier.ProcessJustification
ProcessJustification(a, j) == verifyJustification(a, j)

\* SetTimeout that does not reach cleanVerifiers
SetTimeoutNoClean(a) == a

\* Dealer.SetTimeout and Verifier.SetTimeout
SetTimeout(a) == cleanVerifiers(a)

\* Verifier.Deal: <<>> is nil
VerifierDeal(a) ==
  IF ~EnoughApprovals(a) \/ ~DealCertified(a) THEN <<>> ELSE a.deal

\* UnsafeSetResponseDKG that records an approval whatever it is given
UnsafeSetResponseDKGApproves(a, idx, approval) ==
  addResponse(a, NewResponse(a.sid, idx, StatusApproval, NilBytes)).a

\* UnsafeSetResponseDKG that writes over a filled slot
UnsafeSetResponseDKGOverwrites(a, idx, approval) ==
  addResponseOverwrite(a, NewResponse(a.sid, idx, approval, NilBytes)).a

UnsafeSetResponseDKG(a, idx, approval) ==
  addResponse(a, NewResponse(a.sid, idx, approval, NilBytes)).a

\* =================================================================== state
VARIABLES
  dealerT,  \* the threshold the Dealer was built with: the Dealer is Dealers[dealerT]
  agg,      \* agg[p]: the Aggregator of participant p (DealerId: the dealer's)
  self,     \* the participant the environment drives, RunAll in a whole run
  net,      \* messages in flight in a whole run
  last      \* the last operation: its name and the error it returned

vars == <<dealerT, agg, self, net, last>>

RunAll == NumVerifiers + 1

\* ----------------------------------------------------- environment inputs
Secret == 4 % GroupOrder
DhSecrets == {3}
RandomStream == [j \in 1 .. (NumVerifiers + 1) |-> (3 * j + 2) % GroupOrder]
Observed == {0, DealerId}

\* a deal as a dealer not bound to NewDealer's checks would build it
CraftDeal(secret, t, ncommits, i) ==
  LET f == NewPriPoly(ncommits, secret, RandomStream)
      commits == PriPolyCommit(f)
  IN  MakeDeal(sessionID(DealerPub, Verifiers, commits, t), i, PriPolyEval(f, i),
               t % Uint32, commits)

OtherT(d) == IF d.t < NumVerifiers THEN d.t + 1 ELSE d.t - 1

OtherSid(d) == CraftDeal(d.secret + 1, d.t, d.t, 0).SessionID

TamperShare(deal) == [deal EXCEPT !.V = (deal.V + 1) % GroupOrder]

TamperCommitment(deal, j) ==
  [deal EXCEPT !.Commitments[j] = (@ + 1) % GroupOrder]

\* the deals a (possibly malicious) dealer may send to verifier i: the honest
\* one, one with another share, one with a threshold above n, one that names
\* another session
DealVariants(d, i) ==
  { d.deals[i + 1],
    TamperShare(d.deals[i + 1]),
    CraftDeal(d.secret, NumVerifiers + 1, NumVerifiers + 1, i),
    [d.deals[i + 1] EXCEPT !.SessionID = OtherSid(d)] }

Peer == 1

\* sealed by the dealer for verifier i (any variant, or the deal of Peer);
\* sealed for Peer's key; with a signature that is not the dealer's; with a
\* plaintext that is no Deal
EncryptedDealInputs(d, i) ==
  LET good(e) == SealDeal(d.deals[i + 1], Verifiers[i + 1], e, d.hkdfContext)
  IN  { SealDeal(x, Verifiers[i + 1], e, d.hkdfContext) :
          x \in DealVariants(d, i) \cup {d.deals[Peer + 1]}, e \in DhSecrets }
      \cup { SealDeal(d.deals[i + 1], Verifiers[Peer + 1], e, d.hkdfContext) :
               e \in DhSecrets }
      \cup { [good(e) EXCEPT !.Signature = SchnorrSign(VerifierLong(Peer), @[2])] :
               e \in DhSecrets }
      \cup { [good(e) EXCEPT !.Cipher[4] = <<"garbage">>] : e \in DhSecrets }

SignedResponse(sid, i, st, long) ==
  NewResponse(sid, i, st, SchnorrSign(long, <<"response", sid, i, st>>))

\* well-signed responses of this session for every index (NumVerifiers is out
\* of bounds); for Peer and the index out of bounds also responses of another
\* session, responses signed with another key and unsigned ones
ResponseInputs(d) ==
  { SignedResponse(d.sessionID, i, st, VerifierLong(i)) :
      i \in 0 .. NumVerifiers, st \in BOOLEAN }
  \cup { SignedResponse(OtherSid(d), i, StatusApproval, VerifierLong(i)) :
           i \in {Peer, NumVerifiers} }
  \cup { NewResponse(OtherSid(d), Peer, StatusApproval, NilBytes) }
  \cup { SignedResponse(d.sessionID, Peer, st, DealerLong) : st \in BOOLEAN }
  \cup { NewResponse(d.sessionID, Peer, st, NilBytes) : st \in BOOLEAN }

\* for the complaint of verifier k: the honest deal of k and the one with
\* another share; for Peer also the other variants, the deal of the next
\* verifier, a deal of another threshold and one whose index is out of bounds
JustificationInputs(d) ==
  UNION { { NewJustification(d.sessionID, k, d.deals[(k % NumVerifiers) + 1], NilBytes),
            NewJustification(d.sessionID, k,
                             TamperShare(d.deals[(k % NumVerifiers) + 1]), NilBytes) } :
          k \in 0 .. NumVerifiers }
  \cup { NewJustification(d.sessionID, Peer, x, NilBytes) :
           x \in DealVariants(d, Peer)
                 \cup { d.deals[((Peer + 1) % NumVerifiers) + 1],
                        CraftDeal(d.secret, OtherT(d), OtherT(d), Peer),
                        [d.deals[Peer + 1] EXCEPT !.I = NumVerifiers] } }

\* the Dealers NewDealer returns for the valid thresholds, and what the
\* environment may feed a participant of each one's session
Dealers == [t \in 2 .. NumVerifiers |-> NewDealer(Secret, t, RandomStream).d[1]]

EncryptedDealInputsOf ==
  [t \in 2 .. NumVerifiers |-> [i \in Indices |-> EncryptedDealInputs(Dealers[t], i)]]

ResponseInputsOf == [t \in 2 .. NumVerifiers |-> ResponseInputs(Dealers[t])]

\* responses handed to Aggregator.ProcessResponse directly: Peer's signed
\* complaint, and its signed approval for another session
DirectResponseInputs(d) ==
  { SignedResponse(d.sessionID, Peer, StatusComplaint, VerifierLong(Peer)),
    SignedResponse(OtherSid(d), Peer, StatusApproval, VerifierLong(Peer)) }

DirectResponseInputsOf ==
  [t \in 2 .. NumVerifiers |-> DirectResponseInputs(Dealers[t])]

JustificationInputsOf == [t \in 2 .. NumVerifiers |-> JustificationInputs(Dealers[t])]

DealerThresholds == {MinimumT(NumVerifiers)}

\* SetThreshold arguments: one below the valid range and the smallest safe one
ThresholdInputs == {1, MinimumT(NumVerifiers)}

\* the observed verifier's own index and one out of bounds
UnsafeIndices == {0, NumVerifiers}

\* -------------------------------------------------------------------- Init
Done(op, err) == [op |-> op, err |-> err]

InitAgg(d) ==
  [p \in Participants |->
     IF p = DealerId THEN newAggregator(d.secretCommits, d.t, d.sessionID)
     ELSE NewEmptyAggregator]

Init ==
  /\ dealerT \in DealerThresholds
  /\ agg = InitAgg(Dealers[dealerT])
  /\ self \in Observed
  /\ net = {}
  /\ last = Done("new", ErrNone)

\* ----------------------------------------------------------------- actions
Step(a, op, err) ==
  /\ last' = Done(op, err)
  /\ agg' = [agg EXCEPT ![self] = a]
  /\ UNCHANGED <<dealerT, self, net>>

IsVerifier == self \in Indices

dealer == Dealers[dealerT]

DealerProcessResponseOn(r) ==
  LET res == DealerProcessResponse(dealer, agg[self], r)
  IN  Step(res.a, "ProcessResponse", res.err)

DealerProcessResponseAct ==
  /\ self = DealerId
  /\ \E r \in ResponseInputsOf[dealerT] : DealerProcessResponseOn(r)

ProcessEncryptedDealOn(e) ==
  LET res == ProcessEncryptedDeal(agg[self], self, e)
  IN  Step(res.a, "Verifier.ProcessEncryptedDeal", res.err)

ProcessEncryptedDealAct ==
  /\ IsVerifier
  /\ \E e \in EncryptedDealInputsOf[dealerT][self] : ProcessEncryptedDealOn(e)

VerifierProcessResponseOn(r) ==
  LET res == VerifierProcessResponse(agg[self], r)
  IN  Step(res.a, "ProcessResponse", res.err)

VerifierProcessResponseAct ==
  /\ IsVerifier
  /\ \E r \in ResponseInputsOf[dealerT] : VerifierProcessResponseOn(r)

\* Aggregator.ProcessResponse, which Dealer and Verifier inherit from the
\* Aggregator they embed
AggregatorProcessResponseOn(r) ==
  LET res == verifyResponse(agg[self], r)
  IN  Step(res.a, "ProcessResponse", res.err)

AggregatorProcessResponseAct ==
  /\ self \in Participants
  /\ \E r \in DirectResponseInputsOf[dealerT] : AggregatorProcessResponseOn(r)

ProcessJustificationOn(j) ==
  LET res == ProcessJustification(agg[self], j)
  IN  Step(res.a, "Verifier.ProcessJustification", res.err)

ProcessJustificationAct ==
  /\ IsVerifier
  /\ \E j \in JustificationInputsOf[dealerT] : ProcessJustificationOn(j)

SetTimeoutAct ==
  /\ self \in Participants
  /\ Step(SetTimeout(agg[self]), "SetTimeout", ErrNone)

SetThresholdAct ==
  /\ self \in Participants
  /\ \E t \in ThresholdInputs :
       Step(SetThreshold(agg[self], t), "SetThreshold", ErrNone)

UnsafeSetResponseDKGAct ==
  /\ IsVerifier
  /\ \E idx \in UnsafeIndices, approval \in BOOLEAN :
       Step(UnsafeSetResponseDKG(agg[self], idx, approval),
            "Verifier.UnsafeSetResponseDKG", ErrNone)

Next ==
  \/ DealerProcessResponseAct
  \/ ProcessEncryptedDealAct
  \/ VerifierProcessResponseAct
  \/ AggregatorProcessResponseAct
  \/ ProcessJustificationAct
  \/ SetTimeoutAct
  \/ SetThresholdAct
  \/ UnsafeSetResponseDKGAct

Spec == Init /\ [][Next]_vars

\* ============================================ a whole run, all honest
\* Every participant runs; the dealer seals one deal per verifier, each
\* verifier answers its deal and its response goes to everybody else.  last
\* is not kept: a run is judged by the Aggregators it leaves.
Msg(kind, to, body) == [kind |-> kind, to |-> to, body |-> <<kind, body>>]

\* the thresholds of the dealers of a whole run: the smallest safe one and n
RunThresholds == {MinimumT(NumVerifiers), NumVerifiers}

InitRun ==
  /\ dealerT \in RunThresholds
  /\ agg = InitAgg(Dealers[dealerT])
  /\ self = RunAll
  /\ net = {}
  /\ last = Done("new", ErrNone)

DealSent(i) ==
  \/ agg[i].deal # <<>>
  \/ \E m \in net : m.kind = "deal" /\ m.to = i

\* the dealer seals the deals in the order of Dealer.EncryptedDeals
RunEncryptedDeal ==
  \E i \in Indices, e \in DhSecrets :
    /\ ~DealSent(i)
    /\ \A k \in 0 .. (i - 1) : DealSent(k)
    /\ \E res \in {EncryptedDeal(dealer, i, e)} :
           /\ res.err = ErrNone
           /\ net' = net \cup {Msg("deal", i, res.e[1])}
    /\ UNCHANGED <<dealerT, agg, self, last>>

RunProcessEncryptedDeal ==
  \E m \in net :
    /\ m.kind = "deal"
    /\ \E res \in {ProcessEncryptedDeal(agg[m.to], m.to, m.body[2])} :
           /\ agg' = [agg EXCEPT ![m.to] = res.a]
           /\ net' = (net \ {m}) \cup
                       (IF res.out = <<>> THEN {}
                        ELSE {Msg("response", p, res.out[1]) : p \in Participants \ {m.to}})
    /\ UNCHANGED <<dealerT, self, last>>

RunDealerProcessResponse ==
  \E m \in net :
    /\ m.kind = "response" /\ m.to = DealerId
    /\ \E res \in {DealerProcessResponse(dealer, agg[DealerId], m.body[2])} :
           /\ agg' = [agg EXCEPT ![DealerId] = res.a]
           /\ net' = (net \ {m}) \cup
                       (IF res.out = <<>> THEN {}
                        ELSE {Msg("justification", p, res.out[1]) : p \in Indices})
    /\ UNCHANGED <<dealerT, self, last>>

\* the caller hands a verifier a response only after its deal
\* (ErrNoDealBeforeResponse: "the caller must be sure to have dispatched a
\* deal before")
RunVerifierProcessResponse ==
  \E m \in net :
    /\ m.kind = "response" /\ m.to \in Indices
    /\ agg[m.to].deal # <<>>
    /\ \E res \in {VerifierProcessResponse(agg[m.to], m.body[2])} :
           /\ agg' = [agg EXCEPT ![m.to] = res.a]
           /\ net' = net \ {m}
    /\ UNCHANGED <<dealerT, self, last>>

NextRun ==
  \/ RunVerifierProcessResponse
  \/ RunDealerProcessResponse
  \/ RunEncryptedDeal
  \/ RunProcessEncryptedDeal

\* every message the dealer or a verifier has to send or to process is sent
\* and processed in the end
SpecRun == InitRun /\ [][NextRun]_vars /\ WF_vars(NextRun)

\* ======================================== a whole run with complaints
\* As the honest run, but a verifier may receive its deal with another share
\* (the dealer keeps the deal it generated).  That verifier complains, the
\* dealer answers the complaint with a Justification for every verifier, and
\* a verifier is handed a Justification once it holds the complaint.
RunEncryptedDealTampered ==
  \E i \in Indices, e \in DhSecrets :
    /\ ~DealSent(i)
    /\ \A k \in 0 .. (i - 1) : DealSent(k)
    /\ net' = net \cup {Msg("deal", i,
                            SealDeal(TamperShare(dealer.deals[i + 1]),
                                     Verifiers[i + 1], e, dealer.hkdfContext))}
    /\ UNCHANGED <<dealerT, agg, self, last>>

RunProcessJustification ==
  \E m \in net :
    /\ m.kind = "justification" /\ m.to \in Indices
    /\ agg[m.to].deal # <<>>
    /\ m.body[2].Index \in DOMAIN agg[m.to].responses
    /\ \E res \in {ProcessJustification(agg[m.to], m.body[2])} :
           /\ agg' = [agg EXCEPT ![m.to] = res.a]
           /\ net' = net \ {m}
    /\ UNCHANGED <<dealerT, self, last>>

NextComplaintRun ==
  \/ RunVerifierProcessResponse
  \/ RunProcessJustification
  \/ RunDealerProcessResponse
  \/ RunEncryptedDeal
  \/ RunEncryptedDealTampered
  \/ RunProcessEncryptedDeal

SpecComplaintRun == InitRun /\ [][NextComplaintRun]_vars

\* ================================================== constructing a Dealer
\* NewDealer on its own: the caller picks a secret and a threshold, valid or
\* not, calls NewDealer once and keeps the Dealer it returns, if any.  The
\* Dealer's Aggregator is agg[DealerId]; no Dealer, no agg[DealerId].
ThresholdArgs == (-1 .. (NumVerifiers + 2)) \cup {Uint32, Uint32 + 2}

SecretArgs == 0 .. (GroupOrder - 1)

InitNewDealer ==
  /\ dealerT \in ThresholdArgs
  /\ \E secret \in SecretArgs : net = {Msg("NewDealer", DealerId, secret)}
  /\ agg = [p \in Indices |-> NewEmptyAggregator]
  /\ self = DealerId
  /\ last = Done("new", ErrNone)

NewDealerAct ==
  \E m \in net :
    /\ m.kind = "NewDealer"
    /\ LET res == NewDealer(m.body[2], dealerT, RandomStream)
       IN  /\ last' = Done("NewDealer", res.err)
           /\ agg' = IF res.d = <<>> THEN agg
                     ELSE (DealerId :> newAggregator(res.d[1].secretCommits,
                                                     res.d[1].t, res.d[1].sessionID))
                          @@ agg
    /\ net' = {}
    /\ UNCHANGED <<dealerT, self>>

SpecNewDealer == InitNewDealer /\ [][NewDealerAct]_vars

\* ================================================== recovering the secret
\* share.RecoverSecret: the first t shares of distinct index in 0..n-1, an
\* error when there are fewer, then Lagrange interpolation at 0 over the
\* points (1 + i, v)
ErrNotEnoughShares == "share: not enough shares to recover secret"

RECURSIVE xyScalar(_, _, _, _)
xyScalar(shares, t, n, acc) ==
  IF shares = <<>> \/ Cardinality(DOMAIN acc) = t THEN acc
  ELSE LET s == Head(shares)
       IN  xyScalar(Tail(shares), t, n,
                    IF s.I >= 0 /\ s.I < n
                      THEN (s.I :> s.V) @@ [k \in DOMAIN acc \ {s.I} |-> acc[k]]
                      ELSE acc)

ScalarInv(x) == CHOOSE y \in 1 .. (GroupOrder - 1) : (x * y) % GroupOrder = 1

RECURSIVE LagrangeBasis(_, _)
LagrangeBasis(i, others) ==
  IF others = {} THEN 1
  ELSE LET j == CHOOSE k \in others : TRUE
       IN  ((1 + j) * ScalarInv((j - i) % GroupOrder)
              * LagrangeBasis(i, others \ {j})) % GroupOrder

RECURSIVE Interpolate(_, _)
Interpolate(y, todo) ==
  IF todo = {} THEN 0
  ELSE LET i == CHOOSE k \in todo : TRUE
       IN  (y[i] * LagrangeBasis(i, DOMAIN y \ {i}) + Interpolate(y, todo \ {i}))
             % GroupOrder

ShareRecoverSecret(shares, t, n) ==
  LET y == xyScalar(shares, t, n, <<>>)
  IN  IF Cardinality(DOMAIN y) < t
        THEN [err |-> ErrNotEnoughShares, secret |-> <<>>]
        ELSE [err |-> ErrNone, secret |-> <<Interpolate(y, DOMAIN y)>>]

ErrRecoverSid == "vss: all deals need to have same session id"

SecShare(deal) == [I |-> deal.I, V |-> deal.V]

\* RecoverSecret that compares only the second deal with the first
RecoverSecretChecksSecond(deals, n, t) ==
  IF \E i \in 1 .. Len(deals) : i <= 2 /\ deals[i].SessionID # deals[1].SessionID
    THEN [err |-> ErrRecoverSid, secret |-> <<>>, shares |-> <<>>]
    ELSE LET shares == [i \in 1 .. Len(deals) |-> SecShare(deals[i])]
             res == ShareRecoverSecret(shares, t, n)
         IN  [err |-> res.err, secret |-> res.secret, shares |-> <<shares>>]

\* RecoverSecret: the error, the secret (<<>> is nil) and what was handed to
\* share.RecoverSecret (<<>> when it was not called)
RecoverSecret(deals, n, t) ==
  IF \E i \in 1 .. Len(deals) : deals[i].SessionID # deals[1].SessionID
    THEN [err |-> ErrRecoverSid, secret |-> <<>>, shares |-> <<>>]
    ELSE LET shares == [i \in 1 .. Len(deals) |-> SecShare(deals[i])]
             res == ShareRecoverSecret(shares, t, n)
         IN  [err |-> res.err, secret |-> res.secret, shares |-> <<shares>>]

\* the deals a caller may gather: the dealer's deals, one with another share
\* and one of another session
DealArgs(d) ==
  {d.deals[k] : k \in 1 .. NumVerifiers}
  \cup {TamperShare(d.deals[1]),
        [d.deals[2] EXCEPT !.SessionID = OtherSid(d)]}

DealListArgs(d) ==
  UNION {[1 .. k -> DealArgs(d)] : k \in 0 .. NumVerifiers}

\* RecoverSecret on its own: the caller gathers a list of deals of the dealer
\* of threshold dealerT and calls RecoverSecret(suite, deals, n, dealerT) once
InitRecoverSecret ==
  /\ dealerT \in 2 .. NumVerifiers
  /\ \E deals \in DealListArgs(Dealers[dealerT]) :
       net = {Msg("RecoverSecret", DealerId, deals)}
  /\ agg = InitAgg(Dealers[dealerT])
  /\ self = DealerId
  /\ last = Done("new", ErrNone)

RecoverSecretAct ==
  \E m \in net :
    /\ m.kind = "RecoverSecret"
    /\ LET res == RecoverSecret(m.body[2], NumVerifiers, dealerT)
       IN  /\ last' = Done("RecoverSecret", res.err)
           /\ net' = {Msg("recovered", DealerId, <<m.body[2], res>>)}
    /\ UNCHANGED <<dealerT, agg, self>>

SpecRecoverSecret == InitRecoverSecret /\ [][RecoverSecretAct]_vars

\* ============================================ certification for any n
\* Aggregator.DealCertified on an Aggregator of n verifiers, n from 1 up
MaxVerifiers == 4

\* the loop of DealCertified over a.verifiers when there are n of them:
\* <<absentVerifiers, complaints>>
RECURSIVE CertifiedLoopOver(_, _, _)
CertifiedLoopOver(n, a, i) ==
  IF i >= n THEN <<0, 0>>
  ELSE LET rest == CertifiedLoopOver(n, a, i + 1)
       IN  IF i \notin DOMAIN a.responses THEN <<rest[1] + 1, rest[2]>>
           ELSE IF a.responses[i].Status = StatusComplaint
             THEN <<rest[1], rest[2] + 1>>
           ELSE rest

\* DealCertified of n verifiers with the complaint bound off by one
DealCertifiedOverStrict(n, a) ==
  LET c == CertifiedLoopOver(n, a, 0)
  IN  EnoughApprovals(a) /\ ~(c[1] > 0 \/ a.badDealer \/ c[2] >= a.t)

DealCertifiedOver(n, a) ==
  LET c == CertifiedLoopOver(n, a, 0)
      absentVerifiers == c[1]
      complaints == c[2]
      tooMuchComplaints == absentVerifiers > 0 \/ a.badDealer \/ complaints > a.t
  IN  EnoughApprovals(a) /\ ~tooMuchComplaints

\* the response tables of n verifiers: every slot absent, an approval or a
\* complaint
ResponseTables(n) ==
  UNION { [keys -> BOOLEAN] : keys \in SUBSET (0 .. (n - 1)) }

\* the Aggregators of n verifiers with threshold t
AggregatorsOf(n, t) ==
  { [newAggregator(<<>>, t, NilBytes) EXCEPT
       !.responses = [i \in DOMAIN tab |-> NewResponse(NilBytes, i, tab[i], NilBytes)],
       !.badDealer = bad] :
      tab \in ResponseTables(n), bad \in BOOLEAN }

\* DealCertified on its own: an Aggregator of n verifiers and threshold
\* dealerT in some state, asked once
InitCertified ==
  /\ \E n \in 1 .. MaxVerifiers :
       /\ dealerT \in 1 .. n
       /\ \E a \in AggregatorsOf(n, dealerT) :
            net = {Msg("DealCertified", DealerId, <<n, a>>)}
  /\ agg = [p \in Participants |-> NewEmptyAggregator]
  /\ self = DealerId
  /\ last = Done("new", ErrNone)

DealCertifiedAct ==
  \E m \in net :
    /\ m.kind = "DealCertified"
    /\ \E res \in {DealCertifiedOver(m.body[2][1], m.body[2][2])} :
         net' = {Msg("certified", DealerId, <<m.body[2][1], m.body[2][2], res>>)}
    /\ last' = Done("DealCertified", ErrNone)
    /\ UNCHANGED <<dealerT, agg, self>>

SpecCertified == InitCertified /\ [][DealCertifiedAct]_vars

\* ===================================================== expand_message_xmd
\* pairing/bn254: expandMsgXmd over byte strings (sequences of 0..255); a
\* big.Int is held as its big-endian bytes without leading zeros, which is
\* what SetBytes followed by Bytes gives
MaxOutlen == 100

PanicNone == ""
PanicDst == "invalid DST length"
PanicXmd == "invalid xmd length"
PanicIndex == "runtime error: index out of range"

Zeros(k) == [i \in 1 .. k |-> 0]

RECURSIVE WeightedSum(_, _, _)
WeightedSum(m, lo, hi) ==
  IF lo > hi THEN 0
  ELSE IF lo = hi THEN (m[lo] * lo) % 251
  ELSE LET mid == (lo + hi) \div 2
       IN  (WeightedSum(m, lo, mid) + WeightedSum(m, mid + 1, hi)) % 251

\* a 32-byte digest that depends on every byte of m and on its length, and
\* that starts with a zero byte for some inputs
keccak256(m) ==
  LET s == (WeightedSum(m, 1, Len(m)) + Len(m)) % 251
  IN  [k \in 1 .. 32 |-> ((s + k) * ((s % 4) + k - 1)) % 256]

RECURSIVE XorBits(_, _)
XorBits(x, y) ==
  IF x = 0 THEN y
  ELSE IF y = 0 THEN x
  ELSE ((x + y) % 2) + 2 * XorBits(x \div 2, y \div 2)

RECURSIVE BigIntBytes(_)
BigIntBytes(m) ==
  IF m = <<>> THEN <<>>
  ELSE IF m[1] = 0 THEN BigIntBytes(Tail(m))
  ELSE m

zeroPadBytes(m, outlen) ==
  IF Len(m) < outlen THEN Zeros(outlen - Len(m)) \o m ELSE m

BigIntXor(x, y) ==
  LET w == IF Len(x) > Len(y) THEN Len(x) ELSE Len(y)
      px == zeroPadBytes(x, w)
      py == zeroPadBytes(y, w)
  IN  BigIntBytes([i \in 1 .. w |-> XorBits(px[i], py[i])])

\* b[0 .. ell-1] of expandMsgXmd, as a sequence: acc holds the blocks so far
RECURSIVE xmdBlocks(_, _, _, _)
xmdBlocks(msg_prime, DST_prime, ell, acc) ==
  IF Len(acc) >= ell THEN acc
  ELSE LET i == Len(acc)
           bi_input == zeroPadBytes(BigIntXor(msg_prime, acc[i]), 32)
                         \o <<(i + 1) % 256>> \o DST_prime
       IN  xmdBlocks(msg_prime, DST_prime, ell,
                     Append(acc, BigIntBytes(keccak256(bi_input))))

RECURSIVE xmdOutput(_, _, _)
xmdOutput(b, i, count) ==
  IF i >= count THEN <<>>
  ELSE zeroPadBytes(b[i + 1], 32) \o xmdOutput(b, i + 1, count)

\* expandMsgXmd: the panic ("" when none) and the bytes returned
expandMsgXmd(domain, msg, outlen) ==
  IF Len(domain) > 255 THEN [panic |-> PanicDst, out |-> <<>>]
  ELSE
    LET b_in_bytes == 32
        r_in_bytes == b_in_bytes * 2
        ell == (outlen + b_in_bytes - 1) \div b_in_bytes
    IN  IF ell > 255 THEN [panic |-> PanicXmd, out |-> <<>>]
        ELSE
          LET DST_prime == domain \o <<Len(domain) % 256>>
              msg_prime_input ==
                Zeros(r_in_bytes) \o msg
                  \o <<(outlen \div 256) % 256, outlen % 256>> \o <<0>> \o DST_prime
              msg_prime == BigIntBytes(keccak256(msg_prime_input))
              b0_input == msg_prime \o <<1>> \o DST_prime
          IN  IF ell = 0 THEN [panic |-> PanicIndex, out |-> <<>>]
              ELSE LET b == xmdBlocks(msg_prime, DST_prime, ell,
                                      <<BigIntBytes(keccak256(b0_input))>>)
                   IN  [panic |-> PanicNone,
                        out |-> xmdOutput(b, 0, outlen \div 32)]

\* what hashToField and the tests call it with, and what lies around
DomainArgs ==
  {<<>>, <<66, 76, 83>>, [i \in 1 .. 255 |-> i], [i \in 1 .. 256 |-> i % 256]}

MsgArgs == {<<>>, <<54, 29, 50>>}

OutlenArgs == (0 .. MaxOutlen) \cup {255 * 32, 255 * 32 + 1}

\* expandMsgXmd on its own: called once
InitExpand ==
  /\ \E domain \in DomainArgs, msg \in MsgArgs, outlen \in OutlenArgs :
       net = {Msg("expandMsgXmd", DealerId, <<domain, msg, outlen>>)}
  /\ dealerT = MinimumT(NumVerifiers)
  /\ agg = [p \in Participants |-> NewEmptyAggregator]
  /\ self = DealerId
  /\ last = Done("new", ErrNone)

expandMsgXmdAct ==
  \E m \in net :
    /\ m.kind = "expandMsgXmd"
    /\ \E res \in {expandMsgXmd(m.body[2][1], m.body[2][2], m.body[2][3])} :
         /\ net' = {Msg("expanded", DealerId, <<m.body[2], res>>)}
         /\ last' = Done("expandMsgXmd", res.panic)
    /\ UNCHANGED <<dealerT, agg, self>>

SpecExpand == InitExpand /\ [][expandMsgXmdAct]_vars

\* ================================================================== claims
\* what the claims count, read off the response table directly
ApprovalSet(a) ==
  {i \in DOMAIN a.responses : a.responses[i].Status = StatusApproval}

ComplaintSet(a) ==
  {i \in DOMAIN a.responses : a.responses[i].Status = StatusComplaint}

AbsentSet(a) == Indices \ DOMAIN a.responses

NumApprovals(a) == Cardinality(ApprovalSet(a))

NumComplaints(a) == Cardinality(ComplaintSet(a))

BadDealerStep(p) ==
  /\ agg[p].badDealer => agg'[p].badDealer
  /\ (~agg[p].badDealer /\ agg'[p].badDealer) =>
       /\ p = self
       /\ \E j \in JustificationInputsOf[dealerT] :
            /\ ProcessJustificationOn(j)
            /\ j.Index \in ComplaintSet(agg[p])
            /\ VerifyDeal(agg[p], j.Deal, FALSE).err # ErrNone
            /\ last'.err = VerifyDeal(agg[p], j.Deal, FALSE).err
  /\ agg'[p].badDealer => ~DealCertified(agg'[p])

\* C3: bad_dealer starts false; it becomes true only in verifyJustification,
\* when the deal of a justification for a stored complaint fails
\* VerifyDeal(deal, false), and in no other operation; it is never reset; and
\* once it is true DealCertified() is false whatever the approvals.
C3_BadDealerLatch ==
  /\ \A p \in Participants : ~agg[p].badDealer
  /\ [][\A p \in Participants : BadDealerStep(p)]_vars

\* C3 witness: the flag is set on a full table with enough approvals and no
\* more than t complaints
C3_Witness ==
  \E p \in Participants :
    /\ agg[p].badDealer
    /\ last.op = "Verifier.ProcessJustification"
    /\ EnoughApprovals(agg[p])
    /\ AbsentSet(agg[p]) = {}
    /\ NumComplaints(agg[p]) <= agg[p].t
    /\ validT(agg[p].t, NumVerifiers)

\* what each ProcessResponse entry point the driven participant has returns
\* on input r: the new Aggregator and the error
ProcessResponseResults(r) ==
  (IF self = DealerId
     THEN {Ret(DealerProcessResponse(dealer, agg[self], r).a,
               DealerProcessResponse(dealer, agg[self], r).err)}
     ELSE {VerifierProcessResponse(agg[self], r)})
  \cup {verifyResponse(agg[self], r)}

\* the stored entry at index i is in res what it is now
SlotUnchanged(res, i) ==
  /\ i \in DOMAIN res.a.responses
  /\ res.a.responses[i] = agg[self].responses[i]

\* C4 (as claimed): a ProcessResponse carrying an index whose slot is filled
\* is rejected with the duplicate-response error and leaves the stored entry
\* unchanged.
C4_DuplicateRejected ==
  self \in Participants =>
    \A r \in ResponseInputsOf[dealerT] :
      r.Index \in DOMAIN agg[self].responses =>
        \A res \in ProcessResponseResults(r) :
          res.err = ErrDuplicate /\ SlotUnchanged(res, r.Index)

\* r passes the checks verifyResponse makes before addResponse
PassesResponseChecks(a, r) ==
  /\ a.sid = NilBytes \/ r.SessionID = a.sid
  /\ r.Index \in Indices
  /\ SchnorrVerify(Verifiers[r.Index + 1], ResponseHash(r), r.Signature)

\* C4 (amended): a ProcessResponse carrying an index whose slot is filled is
\* rejected with an error and leaves the stored entry unchanged, whatever the
\* status of the new response; the error is the duplicate-response error when
\* the response is for the Aggregator's session and carries the signature of
\* the verifier at that index; otherwise it is the error of the earlier
\* check, which for Verifier.ProcessResponse includes that no deal is bound.
C4_FilledSlotRejected ==
  self \in Participants =>
    \A r \in ResponseInputsOf[dealerT] :
      r.Index \in DOMAIN agg[self].responses =>
        \A res \in ProcessResponseResults(r) :
          /\ res.err # ErrNone
          /\ SlotUnchanged(res, r.Index)
          /\ PassesResponseChecks(agg[self], r) =>
               res.err \in {ErrDuplicate, ErrNoDealBeforeResponse}
          /\ res.err = ErrNoDealBeforeResponse =>
               (IsVerifier /\ agg[self].deal = <<>>)
          /\ (PassesResponseChecks(agg[self], r) /\ agg[self].deal # <<>>) =>
               res.err = ErrDuplicate

\* C4 witness: a response of the opposite status was rejected as a duplicate
C4_Witness ==
  /\ self \in Participants
  /\ last = Done("ProcessResponse", ErrDuplicate)
  /\ ApprovalSet(agg[self]) # {}
  /\ ComplaintSet(agg[self]) # {}

\* what C5 assumes of an Aggregator before the timeout
QuietMajority(a) ==
  /\ NumApprovals(a) >= a.t
  /\ ComplaintSet(a) = {}
  /\ ~a.badDealer
  /\ NumVerifiers - NumApprovals(a) <= a.t

C6_CertifiedLessThanTComplaints ==
  \A p \in Participants :
    DealCertified(agg[p]) => NumComplaints(agg[p]) < agg[p].t

\* C7: in a run where the honest dealer (2 <= t <= n) seals a deal for every
\* verifier, every verifier processes its deal and every response reaches
\* the dealer and the other verifiers, in the end every table holds the
\* approval of every verifier, EnoughApprovals() and DealCertified() hold at
\* the dealer and at every verifier, and Dealer.SecretCommit() is g^secret.
C7_HonestRunCertifies ==
  <>[](/\ \A p \in Participants :
            /\ ApprovalSet(agg[p]) = Indices
            /\ EnoughApprovals(agg[p])
            /\ DealCertified(agg[p])
       /\ SecretCommit(dealer, agg[DealerId]) = <<PointMul(Secret)>>)

\* C7 witness: every message is processed, every table holds the n signed
\* approvals and the deal is certified everywhere
C7_Witness ==
  /\ self = RunAll
  /\ net = {}
  /\ \A p \in Participants :
       /\ ApprovalSet(agg[p]) = Indices
       /\ \A i \in Indices : agg[p].responses[i].Signature # NilBytes
       /\ DealCertified(agg[p])
  /\ SecretCommit(dealer, agg[DealerId]) = <<PointMul(Secret)>>

\* C8: when a complaint is stored at slot k of a verifier and a Justification
\* for index k whose deal passes VerifyDeal(deal, false) is processed, slot k
\* turns from complaint to approval and no other slot and not bad_dealer
\* changes.
C8_JustificationUpgrades ==
  IsVerifier =>
    \A j \in JustificationInputsOf[dealerT] :
      (/\ j.Index \in ComplaintSet(agg[self])
       /\ VerifyDeal(agg[self], j.Deal, FALSE).err = ErrNone) =>
        LET res == ProcessJustification(agg[self], j)
        IN  /\ res.err = ErrNone
            /\ DOMAIN res.a.responses = DOMAIN agg[self].responses
            /\ res.a.responses[j.Index] =
                 [agg[self].responses[j.Index] EXCEPT !.Status = StatusApproval]
            /\ \A i \in DOMAIN agg[self].responses \ {j.Index} :
                 res.a.responses[i] = agg[self].responses[i]
            /\ res.a.badDealer = agg[self].badDealer

\* C8 witness: the deal is certified right after a justification was
\* accepted, the verifier's own slot holding an approval under the signature
\* of its complaint, with another complaint still stored
C8_Witness ==
  /\ IsVerifier
  /\ last = Done("Verifier.ProcessJustification", ErrNone)
  /\ DealCertified(agg[self])
  /\ validT(agg[self].t, NumVerifiers)
  /\ ComplaintSet(agg[self]) # {}
  /\ \E i \in ApprovalSet(agg[self]) :
       agg[self].responses[i].Signature =
         SchnorrSign(VerifierLong(i),
                     ResponseHash([agg[self].responses[i] EXCEPT
                                     !.Status = StatusComplaint]))

\* C9 (as claimed): once a Verifier has bound a deal, sid, t and commitments
\* are the values of that deal, whatever public operations follow.
C9_BoundFieldsFromDeal ==
  \A p \in Indices :
    agg[p].deal # <<>> =>
      /\ agg[p].sid = agg[p].deal[1].SessionID
      /\ agg[p].t = agg[p].deal[1].T
      /\ agg[p].commits = agg[p].deal[1].Commitments

\* C10 (as claimed): in every reachable state of the Aggregator of a Dealer
\* or a Verifier the threshold satisfies 2 <= t <= n.
C10_ThresholdInRange ==
  \A p \in Participants : 2 <= agg[p].t /\ agg[p].t <= NumVerifiers

\* C11 (as claimed): after SetThreshold(t0) on a Verifier that has received
\* no deal, a first deal whose T differs from t0 makes VerifyDeal fail with
\* the incompatible-threshold error, and ProcessEncryptedDeal answers it with
\* a complaint, never an approval.
C11_ExpectedThresholdEnforced ==
  (IsVerifier /\ agg[self].deal = <<>>) =>
    \A t0 \in 1 .. NumVerifiers, e \in EncryptedDealInputsOf[dealerT][self] :
      LET a0 == SetThreshold(agg[self], t0)
          dec == decryptDeal(self, e)
          res == ProcessEncryptedDeal(a0, self, e)
      IN  (dec.err = ErrNone /\ dec.deal.I = self /\ dec.deal.T # t0) =>
            /\ VerifyDeal(a0, dec.deal, TRUE).err = ErrIncompatibleT
            /\ res.out # <<>> => res.out[1].Status = StatusComplaint

C13_SecretCommitIffCertified ==
  self = DealerId =>
    LET a == agg[DealerId]
        certified == /\ NumApprovals(a) >= a.t
                     /\ ~a.badDealer
                     /\ AbsentSet(a) = {}
                     /\ NumComplaints(a) <= a.t
    IN  SecretCommit(dealer, a) =
          IF certified THEN <<PointMul(Secret)>> ELSE <<>>

\* C13 witness: the dealer gives out the commitment with a complaint stored
C13_Witness ==
  /\ self = DealerId
  /\ SecretCommit(dealer, agg[DealerId]) = <<PointMul(Secret)>>
  /\ ComplaintSet(agg[DealerId]) # {}
  /\ validT(agg[DealerId].t, NumVerifiers)

\* C14: SetTimeout (cleanVerifiers) on a Dealer or a Verifier stores a
\* complaint with empty signature at every index of 0..n-1 without a stored
\* response, leaves every stored response, bad_dealer, sid, t and the deal
\* unchanged, leaves no verifier absent, and a second SetTimeout changes
\* nothing.
C14_CleanVerifiersFrame ==
  self \in Participants =>
    LET a == agg[self]
        after == SetTimeout(a)
    IN  /\ DOMAIN after.responses = DOMAIN a.responses \cup Indices
        /\ \A i \in AbsentSet(a) :
             /\ after.responses[i].Index = i
             /\ after.responses[i].Status = StatusComplaint
             /\ after.responses[i].Signature = NilBytes
        /\ \A i \in DOMAIN a.responses : after.responses[i] = a.responses[i]
        /\ after.badDealer = a.badDealer
        /\ after.sid = a.sid
        /\ after.t = a.t
        /\ after.deal = a.deal
        /\ after.commits = a.commits
        /\ AbsentSet(after) = {}
        /\ SetTimeout(after) = after

\* C14 witness: a timeout has filled the last slot of a table that held a
\* signed complaint and an approval, with the dealer already flagged
C14_Witness ==
  /\ self \in Participants
  /\ last.op = "SetTimeout"
  /\ agg[self].badDealer
  /\ ApprovalSet(agg[self]) # {}
  /\ \E i \in ComplaintSet(agg[self]) : agg[self].responses[i].Signature # NilBytes
  /\ (NumVerifiers - 1) \in ComplaintSet(agg[self])
  /\ agg[self].responses[NumVerifiers - 1].Signature = NilBytes

\* every response the driven participant may receive is refused and leaves
\* the table as it is once no verifier is absent
FullTableRejects ==
  (self \in Participants /\ AbsentSet(agg[self]) = {}) =>
    \A r \in ResponseInputsOf[dealerT] :
      \A res \in ProcessResponseResults(r) :
        res.err # ErrNone /\ res.a.responses = agg[self].responses

\* C15: after SetTimeout() on a Dealer or a Verifier no verifier is absent,
\* and stays so whatever is called next; and in every such state every
\* Response (any index, any status, signed or not) is rejected with an error
\* and leaves the response table unchanged.
C15_NoResponseAfterTimeout ==
  /\ []FullTableRejects
  /\ [][/\ last'.op = "SetTimeout" => AbsentSet(agg'[self]) = {}
        /\ AbsentSet(agg[self]) = {} => AbsentSet(agg'[self]) = {}]_vars

\* C15 witness: a response was refused after the timeout had filled the last
\* verifier's slot
C15_Witness ==
  /\ self \in Participants
  /\ last.op = "ProcessResponse"
  /\ last.err # ErrNone
  /\ AbsentSet(agg[self]) = {}
  /\ ApprovalSet(agg[self]) # {}
  /\ agg[self].responses[NumVerifiers - 1] =
       NewResponse(agg[self].sid, NumVerifiers - 1, StatusComplaint, NilBytes)

\* C16: while a Verifier has bound no deal, Verifier.ProcessResponse returns
\* the no-deal-before-response error and changes nothing; once a deal is
\* bound it returns what verifyResponse returns and does what it does.
C16_NoDealBeforeResponse ==
  IsVerifier =>
    \A r \in ResponseInputsOf[dealerT] :
      LET res == VerifierProcessResponse(agg[self], r)
      IN  IF agg[self].deal = <<>>
            THEN res.err = ErrNoDealBeforeResponse /\ res.a = agg[self]
            ELSE /\ res.err # ErrNoDealBeforeResponse
                 /\ res = verifyResponse(agg[self], r)

\* C16 witness: a response was refused for want of a deal by a verifier
\* whose table is not empty
C16_Witness ==
  /\ IsVerifier
  /\ last = Done("ProcessResponse", ErrNoDealBeforeResponse)
  /\ agg[self].deal = <<>>
  /\ agg[self].responses # <<>>

\* C17 (as claimed): a ProcessEncryptedDeal on a Verifier that has bound a
\* deal returns the already-processed error, emits no Response and leaves
\* the Aggregator unchanged.
C17_SecondDealAlreadyProcessed ==
  (IsVerifier /\ agg[self].deal # <<>>) =>
    \A e \in EncryptedDealInputsOf[dealerT][self] :
      LET res == ProcessEncryptedDeal(agg[self], self, e)
      IN  /\ res.err = ErrDealAlreadyProcessed
          /\ res.out = <<>>
          /\ res.a = agg[self]

\* C17 (amended): a ProcessEncryptedDeal on a Verifier that has bound a deal
\* (after an approval or a complaint) returns an error, emits no Response and
\* leaves the bound deal, sid, t, commitments and the response table
\* unchanged; the error is the already-processed error when the envelope
\* opens to a deal carrying the verifier's index, and otherwise the error of
\* the signature check, the decryption, the decoding or the index check that
\* comes first.
C17_SecondDealRefused ==
  (IsVerifier /\ agg[self].deal # <<>>) =>
    \A e \in EncryptedDealInputsOf[dealerT][self] :
      LET res == ProcessEncryptedDeal(agg[self], self, e)
          dec == decryptDeal(self, e)
      IN  /\ res.out = <<>>
          /\ res.a = agg[self]
          /\ res.err = IF dec.err # ErrNone THEN dec.err
                       ELSE IF dec.deal.I # self THEN ErrWrongIndex
                       ELSE ErrDealAlreadyProcessed

\* C17 witness: a second deal was refused as already processed by a verifier
\* that had complained about the first
C17_Witness ==
  /\ IsVerifier
  /\ last = Done("Verifier.ProcessEncryptedDeal", ErrDealAlreadyProcessed)
  /\ agg[self].deal # <<>>
  /\ self \in ComplaintSet(agg[self])
  /\ agg[self].responses[self].Signature # NilBytes

\* e opens, for the driven verifier, to a deal that carries its index
OpensToOwnDeal(e) ==
  decryptDeal(self, e).err = ErrNone /\ decryptDeal(self, e).deal.I = self

\* the Response C18 expects for the deal d: the verifier's index, approval
\* exactly when VerifyDeal(d, true) returns no error, and stored at its slot
ExpectedResponse(res, d) ==
  /\ res.err = ErrNone
  /\ res.out # <<>>
  /\ res.out[1].Index = self
  /\ res.out[1].Status =
       (IF VerifyDeal(agg[self], d, TRUE).err = ErrNone
          THEN StatusApproval ELSE StatusComplaint)
  /\ SchnorrVerify(Verifiers[self + 1], ResponseHash(res.out[1]),
                   res.out[1].Signature)
  /\ self \in DOMAIN res.a.responses
  /\ res.a.responses[self] = res.out[1]

C19_SessionCheckedFirst ==
  (agg[self].sid # NilBytes) =>
    \A r \in ResponseInputsOf[dealerT] :
      (r.SessionID # agg[self].sid) =>
        \A res \in ProcessResponseResults(r) :
          /\ res.err = ErrRespSid
          /\ res.a = agg[self]

\* C19 witness: a participant bound to a session has just refused a response
\* for its session error, with slots still free for it
C19_Witness ==
  /\ last = Done("ProcessResponse", ErrRespSid)
  /\ agg[self].sid # NilBytes
  /\ Peer \in AbsentSet(agg[self])

\* the errors verifyResponse and addResponse return
VerifyResponseErrors == {ErrRespSid, ErrRespIndex, ErrSignature, ErrAddIndex, ErrDuplicate}

\* C20: a Response that any ProcessResponse entry point refuses with one of
\* verifyResponse's errors leaves the Aggregator as it was: the table, hence
\* the numbers of approvals and complaints, and badDealer are unchanged.
C20_RejectedResponseFrame ==
  \A r \in ResponseInputsOf[dealerT] :
    \A res \in ProcessResponseResults(r) :
      (res.err \in VerifyResponseErrors) =>
        /\ res.a = agg[self]
        /\ res.a.responses = agg[self].responses
        /\ NumApprovals(res.a) = NumApprovals(agg[self])
        /\ NumComplaints(res.a) = NumComplaints(agg[self])
        /\ res.a.badDealer = agg[self].badDealer

\* C20 witness: a bound participant holding a complaint and a free slot, the
\* dealer not blamed, has just refused a badly signed response
C20_Witness ==
  /\ last = Done("ProcessResponse", ErrSignature)
  /\ agg[self].sid # NilBytes
  /\ NumComplaints(agg[self]) >= 1
  /\ Peer \in AbsentSet(agg[self])
  /\ ~agg[self].badDealer

\* C21: Dealer.ProcessResponse(r) returns verifyResponse's error and no
\* Justification when verifyResponse refuses r; otherwise r is stored, and
\* the call returns neither error nor Justification for an approval, and for
\* a complaint a Justification with the dealer's session ID, r's index and
\* the deal the dealer generated for that verifier.
C21_DealerProcessResponse ==
  (self = DealerId) =>
    \A r \in ResponseInputsOf[dealerT] :
      LET res == DealerProcessResponse(dealer, agg[self], r)
          v == verifyResponse(agg[self], r)
      IN  IF v.err # ErrNone
            THEN res.err = v.err /\ res.out = <<>> /\ res.a = agg[self]
            ELSE /\ res.err = ErrNone
                 /\ r.Index \in DOMAIN res.a.responses
                 /\ res.a.responses[r.Index] = r
                 /\ IF r.Status = StatusApproval
                      THEN res.out = <<>>
                      ELSE /\ res.out # <<>>
                           /\ res.out[1].SessionID = dealer.sessionID
                           /\ res.out[1].Index = r.Index
                           /\ res.out[1].Deal = dealer.deals[r.Index + 1]
                           /\ res.out[1].Deal.I = r.Index
                           /\ res.out[1].Deal =
                                MakeDeal(dealer.sessionID, r.Index,
                                         PriPolyEval(NewPriPoly(dealer.t, dealer.secret,
                                                                RandomStream), r.Index),
                                         dealer.t % Uint32, dealer.secretCommits)

\* C21 witness: the dealer has accepted signed complaints and a signed
\* approval, and has refused responses
C21_Witness ==
  /\ self = DealerId
  /\ last = Done("ProcessResponse", ErrNone)
  /\ \E i \in ComplaintSet(agg[self]) : agg[self].responses[i].Signature # NilBytes
  /\ NumApprovals(agg[self]) >= 1
  /\ AbsentSet(agg[self]) # {}

\* the responses verifyResponse accepts in the state a
Accepted(a) ==
  {r \in ResponseInputsOf[dealerT] : verifyResponse(a, r).err = ErrNone}

\* the sets of accepted responses with pairwise distinct indices
DistinctIndexSets(a) ==
  {S \in SUBSET Accepted(a) : \A x, y \in S : x # y => x.Index # y.Index}

\* every order of delivery of the responses of S
Orders(S) ==
  {s \in [1 .. Cardinality(S) -> S] :
     \A i, j \in 1 .. Cardinality(S) : i # j => s[i] # s[j]}

\* Aggregator.ProcessResponse on each response of s in turn
RECURSIVE ProcessAll(_, _)
ProcessAll(a, s) ==
  IF s = <<>> THEN a ELSE ProcessAll(verifyResponse(a, Head(s)).a, Tail(s))

\* the Aggregator a with the responses of S added to its table
WithResponses(a, S) ==
  [a EXCEPT !.responses =
     [i \in {r.Index : r \in S} |-> CHOOSE r \in S : r.Index = i] @@ a.responses]

\* C22: from the Aggregator of the driven participant, every order of
\* processing a set of responses with pairwise distinct indices that each pass
\* verifyResponse gives the same Aggregator: the table extended with exactly
\* these responses, hence the same EnoughApprovals and DealCertified.
C22_OrderIndependent ==
  \A S \in DistinctIndexSets(agg[self]) :
    \E all \in {WithResponses(agg[self], S)} :
      \A s \in Orders(S) :
        \E a1 \in {ProcessAll(agg[self], s)} :
          /\ a1.responses = all.responses
          /\ EnoughApprovals(a1) = EnoughApprovals(all)
          /\ DealCertified(a1) = DealCertified(all)

\* C22 witness: two signed responses of different status have been stored
\* in turn and a third index is still open
C22_Witness ==
  /\ last = Done("ProcessResponse", ErrNone)
  /\ \E i \in ApprovalSet(agg[self]), k \in ComplaintSet(agg[self]) :
       /\ agg[self].responses[i].Signature # NilBytes
       /\ agg[self].responses[k].Signature # NilBytes
  /\ AbsentSet(agg[self]) # {}
  /\ \E S \in DistinctIndexSets(agg[self]) : S # {}

\* C23: the dealer's session ID is sessionID(dealer_pub, verifiers,
\* commitments, t); when a Verifier without a deal processes the deal the
\* honest dealer sealed for it, the session ID it recomputes from the deal
\* equals the dealer's, equals the deal's session ID that it binds as its
\* sid, and is the session ID of the Response it returns.
C23_SessionIDAgrees ==
  /\ dealer.sessionID =
       sessionID(DealerPub, Verifiers, dealer.secretCommits, dealer.t)
  /\ (IsVerifier /\ agg[self].deal = <<>>) =>
       \A dhSecret \in DhSecrets :
         LET e == EncryptedDeal(dealer, self, dhSecret).e[1]
             d == decryptDeal(self, e).deal
             res == ProcessEncryptedDeal(agg[self], self, e)
             sid == sessionID(DealerPub, Verifiers, d.Commitments, d.T)
         IN  /\ sid = dealer.sessionID
             /\ d.SessionID = sid
             /\ res.a.sid = sid
             /\ res.out # <<>> => res.out[1].SessionID = sid
             /\ (self \notin DOMAIN agg[self].responses) => res.out # <<>>

\* C23 witness: the verifier has bound the honest dealer's deal and stored
\* the signed approval it returned, both under the dealer's session ID
C23_Witness ==
  /\ IsVerifier
  /\ last = Done("Verifier.ProcessEncryptedDeal", ErrNone)
  /\ agg[self].deal = <<dealer.deals[self + 1]>>
  /\ agg[self].sid = dealer.sessionID
  /\ self \in ApprovalSet(agg[self])
  /\ agg[self].responses[self].Signature # NilBytes
  /\ agg[self].responses[self].SessionID = dealer.sessionID

\* the deal of the driven verifier with a tampered share, and its envelope
TamperedDeal == TamperShare(dealer.deals[self + 1])

\* the Justification the dealer returns for the stored, signed complaint of
\* verifier k (<<>> when the dealer refuses the complaint)
DealerJustifies(k) ==
  DealerProcessResponse(dealer,
                        newAggregator(dealer.secretCommits, dealer.t, dealer.sessionID),
                        agg[self].responses[k]).out

\* C24: (a) a Verifier without a deal and with an empty own slot that
\* receives its deal with a tampered share binds it, stores and returns a
\* complaint; (b) when the Aggregator of a Verifier of the dealer's session
\* (the wrongly-dealt verifier itself or another one) holds that complaint and
\* processes the dealer's Justification, which carries the untampered deal,
\* it upgrades the slot to approval and leaves bad_dealer alone; (c) the deal
\* bound in the wrongly-dealt verifier stays the tampered one, which fails the
\* share-commitment check and is what Verifier.Deal() returns once certified.
C24_TamperedDealJustified ==
  IsVerifier =>
    /\ (agg[self].deal = <<>> /\ self \notin DOMAIN agg[self].responses) =>
         \A dhSecret \in DhSecrets :
           LET res == ProcessEncryptedDeal(agg[self], self,
                        SealDeal(TamperedDeal, Verifiers[self + 1], dhSecret,
                                 dealer.hkdfContext))
           IN  /\ res.err = ErrNone
               /\ res.out # <<>>
               /\ res.out[1].Status = StatusComplaint
               /\ res.a.responses[self] = res.out[1]
               /\ res.a.deal = <<TamperedDeal>>
    /\ (/\ agg[self].deal # <<>>
        /\ agg[self].sid = dealer.sessionID
        /\ agg[self].t = dealer.t) =>
         \A k \in ComplaintSet(agg[self]) :
           DealerJustifies(k) # <<>> =>
             LET j == DealerJustifies(k)[1]
                 res == ProcessJustification(agg[self], j)
             IN  /\ j.Deal = dealer.deals[k + 1]
                 /\ res.err = ErrNone
                 /\ res.a.responses[k].Status = StatusApproval
                 /\ res.a.badDealer = agg[self].badDealer
                 /\ res.a.deal = agg[self].deal
                 /\ (agg[self].deal = <<TamperedDeal>>) =>
                      /\ ~ShareVerifies(res.a.deal[1])
                      /\ (EnoughApprovals(res.a) /\ DealCertified(res.a)) =>
                           VerifierDeal(res.a) = <<TamperedDeal>>

\* C24 witness: the verifier's complaint about the tampered deal has just
\* been justified; the deal is certified and Verifier.Deal() returns the
\* tampered deal, which fails the share-commitment check
C24_Witness ==
  /\ IsVerifier
  /\ last = Done("Verifier.ProcessJustification", ErrNone)
  /\ agg[self].deal = <<TamperedDeal>>
  /\ self \in ApprovalSet(agg[self])
  /\ agg[self].responses[self].Signature # NilBytes
  /\ ~agg[self].badDealer
  /\ VerifierDeal(agg[self]) = <<TamperedDeal>>
  /\ ~ShareVerifies(VerifierDeal(agg[self])[1])

\* C25: RecoverSecret(suite, deals, n, t) returns the session error and
\* does not call the share primitive when some deal's session ID differs
\* from the first deal's; otherwise it hands the primitive exactly the shares
\* of the given deals, in order, and returns what the primitive returns.
C25_RecoverSecretSessions ==
  \A m \in net :
    m.kind = "RecoverSecret" =>
      LET deals == m.body[2]
          res == RecoverSecret(deals, NumVerifiers, dealerT)
      IN  IF \E i, k \in 1 .. Len(deals) : deals[i].SessionID # deals[k].SessionID
            THEN /\ res.err = ErrRecoverSid
                 /\ res.secret = <<>>
                 /\ res.shares = <<>>
            ELSE /\ res.err # ErrRecoverSid
                 /\ res.shares # <<>>
                 /\ Len(res.shares[1]) = Len(deals)
                 /\ \A i \in 1 .. Len(deals) :
                      /\ res.shares[1][i].I = deals[i].I
                      /\ res.shares[1][i].V = deals[i].V
                 /\ res.secret =
                      ShareRecoverSecret(res.shares[1], dealerT, NumVerifiers).secret
                 /\ res.err =
                      ShareRecoverSecret(res.shares[1], dealerT, NumVerifiers).err

\* C25 witness: RecoverSecret has refused a list whose last deal, and only
\* that one, is of another session
C25_Witness ==
  /\ last = Done("RecoverSecret", ErrRecoverSid)
  /\ \E m \in net :
       /\ m.kind = "recovered"
       /\ Len(m.body[2][1]) = NumVerifiers
       /\ \A i \in 1 .. (NumVerifiers - 1) :
            m.body[2][1][i].SessionID = m.body[2][1][1].SessionID
       /\ m.body[2][1][NumVerifiers].SessionID # m.body[2][1][1].SessionID
       /\ m.body[2][2].shares = <<>>

\* the deals handed to VerifyDeal, for the dealer of each threshold: the
\* dealer's own deals, these with another share, these with one commitment
\* changed, and for every index the other variants a dealer may send
HonestDealsOf == [t \in 2 .. NumVerifiers |-> {Dealers[t].deals[k + 1] : k \in Indices}]

TamperedShareDealsOf ==
  [t \in 2 .. NumVerifiers |-> {TamperShare(d) : d \in HonestDealsOf[t]}]

TamperedCommitmentDealsOf ==
  [t \in 2 .. NumVerifiers |->
     {TamperCommitment(d, j) : d \in HonestDealsOf[t], j \in 1 .. t}]

VerifyDealInputsOf ==
  [t \in 2 .. NumVerifiers |->
     UNION {DealVariants(Dealers[t], k) : k \in Indices}
     \cup TamperedCommitmentDealsOf[t]]

VerifyDealInputs == VerifyDealInputsOf[dealerT]

\* d has a valid T equal to the bound t, the bound session ID and an index in
\* 0..n-1, the bound values being d's own when VerifyDeal binds d
MeetsBoundValues(a, d) ==
  /\ validT(d.T, NumVerifiers)
  /\ d.T = (IF a.deal = <<>> THEN d.T ELSE a.t)
  /\ d.SessionID = (IF a.deal = <<>> THEN d.SessionID ELSE a.sid)
  /\ d.I \in Indices

\* VerifyDeal succeeds on d exactly when the share matches the commitments;
\* it fails with the share error otherwise
ShareCheckDecides(a, d, inclusion) ==
  \E v \in {VerifyDeal(a, d, inclusion)} :
    \E matches \in {PointMul(d.V) = PubPolyEval(d.Commitments, d.I)} :
      /\ (v.err = ErrNone) <=> matches
      /\ ~matches => v.err = ErrShare
      /\ (d \in HonestDealsOf[dealerT]) => v.err = ErrNone
      /\ (d \in TamperedShareDealsOf[dealerT]) => v.err = ErrShare
      /\ (d \in TamperedCommitmentDealsOf[dealerT]) => v.err = ErrShare

\* C26 (as claimed): for a deal with valid T equal to the bound t, session ID
\* equal to the bound sid and index in 0..n-1, VerifyDeal succeeds if and only
\* if g^v equals the public polynomial of the deal's commitments at the index;
\* so the dealer's deals pass, and a deal with a changed share or commitment
\* fails with the share error.
C26_ShareCheckDecides ==
  \A d \in VerifyDealInputs, inclusion \in BOOLEAN :
    MeetsBoundValues(agg[self], d) => ShareCheckDecides(agg[self], d, inclusion)

\* C26 (amended): the same for the calls VerifyDeal does not refuse as
\* already processed (inclusion false, or no deal bound before); with
\* inclusion true and a deal bound it returns AlreadyProcessed whatever the
\* share.
C26_ShareCheckUnlessProcessed ==
  \A d \in VerifyDealInputs, inclusion \in BOOLEAN :
    MeetsBoundValues(agg[self], d) =>
      IF inclusion /\ agg[self].deal # <<>>
        THEN VerifyDeal(agg[self], d, inclusion).err = ErrDealAlreadyProcessed
        ELSE ShareCheckDecides(agg[self], d, inclusion)

\* C26 witness: a verifier bound to the honest deal has just had a
\* justification refused for the share error, which blames the dealer
C26_Witness ==
  /\ IsVerifier
  /\ last = Done("Verifier.ProcessJustification", ErrShare)
  /\ agg[self].deal = <<dealer.deals[self + 1]>>
  /\ agg[self].t = dealer.t
  /\ agg[self].badDealer

\* an envelope with the signature of Peer in place of the dealer's
Resigned(e) == [e EXCEPT !.Signature = SchnorrSign(VerifierLong(Peer), e.DHKey)]

\* ProcessEncryptedDeal refuses e with err: no Response, same Aggregator
RefusedWith(e, err) ==
  LET res == ProcessEncryptedDeal(agg[self], self, e)
  IN  /\ res.err = err
      /\ res.out = <<>>
      /\ res.a = agg[self]
      /\ (agg[self].deal = <<>>) =>
           /\ res.a.deal = <<>>
           /\ res.a.sid = agg[self].sid
           /\ res.a.t = agg[self].t
           /\ res.a.commits = agg[self].commits
           /\ res.a.responses = agg[self].responses

\* C27: ProcessEncryptedDeal refuses, with no Response and an unchanged
\* Aggregator, an envelope not signed by the dealer (with the signature
\* error, whether or not the rest of the envelope would open), an envelope
\* that does not open under the verifier's key, an envelope whose plaintext
\* is no Deal, and a deal that carries another verifier's index.
C27_BadEnvelopeRefused ==
  (IsVerifier /\ self # Peer) =>
    \A dhSecret \in DhSecrets :
      LET ctx == dealer.hkdfContext
          own == SealDeal(dealer.deals[self + 1], Verifiers[self + 1], dhSecret, ctx)
          forPeer == SealDeal(dealer.deals[self + 1], Verifiers[Peer + 1], dhSecret, ctx)
          noDeal == [own EXCEPT !.Cipher[4] = <<"garbage">>]
          ofPeer == SealDeal(dealer.deals[Peer + 1], Verifiers[self + 1], dhSecret, ctx)
      IN  /\ \A e \in {own, forPeer, noDeal, ofPeer} : RefusedWith(Resigned(e), ErrSignature)
          /\ RefusedWith(forPeer, ErrDecrypt)
          /\ RefusedWith(noDeal, ErrDecode)
          /\ RefusedWith(ofPeer, ErrWrongIndex)
          /\ \A e \in EncryptedDealInputsOf[dealerT][self] :
               (decryptDeal(self, e).err # ErrNone \/ decryptDeal(self, e).deal.I # self)
                 => \E err \in {ErrSignature, ErrDecrypt, ErrDecode, ErrWrongIndex} :
                      RefusedWith(e, err)

\* C27 witness: a Verifier still as constructed has just refused a deal
\* carrying another index
C27_Witness ==
  /\ IsVerifier
  /\ last = Done("Verifier.ProcessEncryptedDeal", ErrWrongIndex)
  /\ agg[self] = NewEmptyAggregator

\* C28: verifyJustification(j) returns an error and leaves the Aggregator
\* as it was when j.index is out of bounds, when no response is stored at
\* j.index, and when the response stored there is an approval, whatever deal
\* j carries; only with a complaint stored at j.index is the deal examined.
C28_JustificationRefusedEarly ==
  IsVerifier =>
    \A j \in JustificationInputsOf[dealerT] :
      LET res == ProcessJustification(agg[self], j)
          refused(err) == res.err = err /\ res.a = agg[self]
      IN  IF j.Index \notin Indices THEN refused(ErrJustIndex)
          ELSE IF j.Index \in AbsentSet(agg[self]) THEN refused(ErrNoComplaint)
          ELSE IF j.Index \in ApprovalSet(agg[self]) THEN refused(ErrJustApproval)
          ELSE /\ j.Index \in ComplaintSet(agg[self])
               /\ res.err = VerifyDeal(agg[self], j.Deal, FALSE).err

\* C28 witness: a Verifier with a deal has just refused a justification for
\* an approval without blaming the dealer, and holds a complaint and an
\* empty slot as well
C28_Witness ==
  /\ IsVerifier
  /\ last = Done("Verifier.ProcessJustification", ErrJustApproval)
  /\ agg[self].deal # <<>>
  /\ ~agg[self].badDealer
  /\ ComplaintSet(agg[self]) # {}
  /\ AbsentSet(agg[self]) # {}

\* what one step may do to the slots of participant p: keep every filled
\* slot filled, leave an approval as it is, and change a stored response only
\* by turning a complaint into an approval in a ProcessJustification that
\* returned no error; so the approvals do not decrease
SlotStep(p) ==
  \/ agg'[p].responses = agg[p].responses
  \/ /\ DOMAIN agg[p].responses \subseteq DOMAIN agg'[p].responses
     /\ \A i \in DOMAIN agg[p].responses :
          /\ agg[p].responses[i].Status = StatusApproval =>
               agg'[p].responses[i] = agg[p].responses[i]
          /\ agg'[p].responses[i] # agg[p].responses[i] =>
               /\ agg[p].responses[i].Status = StatusComplaint
               /\ agg'[p].responses[i] =
                    [agg[p].responses[i] EXCEPT !.Status = StatusApproval]
               /\ last' = Done("Verifier.ProcessJustification", ErrNone)
     /\ ApprovalSet(agg[p]) \subseteq ApprovalSet(agg'[p])
     /\ NumApprovals(agg'[p]) >= NumApprovals(agg[p])

\* C29: over any sequence of operations a filled slot is never removed, an
\* approval never changes again, the only change of a filled slot is from
\* complaint to approval through a successful verifyJustification, and the
\* number of approvals never decreases.
C29_SlotStateMachine == [][\A p \in Participants : SlotStep(p)]_vars

\* C29 witness: after a timeout the table of a Verifier is full and holds an
\* approval that was a signed complaint before its justification, next to a
\* complaint the timeout wrote
C29_Witness ==
  /\ IsVerifier
  /\ last = Done("SetTimeout", ErrNone)
  /\ AbsentSet(agg[self]) = {}
  /\ \E i \in ApprovalSet(agg[self]) :
       agg[self].responses[i].Signature =
         SchnorrSign(VerifierLong(i),
                     ResponseHash([agg[self].responses[i] EXCEPT
                                     !.Status = StatusComplaint]))
  /\ \E k \in ComplaintSet(agg[self]) : agg[self].responses[k].Signature = NilBytes

\* the deals of threshold T = t whose share lies on a polynomial with one
\* coefficient more, as a dealer that does not go through NewDealer can send
LongDeals == {CraftDeal(dealer.secret, dealer.t, dealer.t + 1, k) : k \in Indices}

\* C30 (as claimed): every deal VerifyDeal accepts, and a verifier therefore
\* approves, carries exactly T commitments, T being the bound t.
C30_AcceptedDealHasTCommitments ==
  /\ \A d \in VerifyDealInputs \cup LongDeals :
       LET v == VerifyDeal(agg[self], d, TRUE)
       IN  v.err = ErrNone =>
             /\ Len(d.Commitments) = d.T
             /\ Len(v.a.commits) = v.a.t
  /\ IsVerifier =>
       \A d \in LongDeals, dhSecret \in DhSecrets :
         LET res == ProcessEncryptedDeal(agg[self], self,
                      SealDeal(d, Verifiers[self + 1], dhSecret, dealer.hkdfContext))
         IN  (res.out # <<>> /\ res.out[1].Status = StatusApproval) =>
               Len(res.a.deal[1].Commitments) = res.a.t

\* C31: UnsafeSetResponseDKG(idx, approval) on a Verifier stores, when
\* idx < n and slot idx is empty, an unsigned response of the given status at
\* idx, and EnoughApprovals and DealCertified then answer as they would had the
\* verifier idx's signed response of that status been accepted; when idx >= n
\* or the slot is filled the Aggregator stays as it is.
C31_UnsafeSetResponse ==
  IsVerifier =>
    \A idx \in 0 .. NumVerifiers, approval \in BOOLEAN :
      LET b == UnsafeSetResponseDKG(agg[self], idx, approval)
          v == verifyResponse(agg[self],
                              SignedResponse(agg[self].sid, idx, approval,
                                             VerifierLong(idx)))
      IN  IF idx \in AbsentSet(agg[self])
            THEN /\ b = [agg[self] EXCEPT !.responses =
                           (idx :> NewResponse(agg[self].sid, idx, approval, NilBytes))
                             @@ agg[self].responses]
                 /\ b.responses[idx].Status = approval
                 /\ v.err = ErrNone
                 /\ EnoughApprovals(b) = EnoughApprovals(v.a)
                 /\ DealCertified(b) = DealCertified(v.a)
            ELSE b = agg[self]

\* C31 witness: right after UnsafeSetResponseDKG a Verifier's deal is
\* certified with an unsigned approval among the approvals it needs
C31_Witness ==
  /\ IsVerifier
  /\ last = Done("Verifier.UnsafeSetResponseDKG", ErrNone)
  /\ \E i \in ApprovalSet(agg[self]) : agg[self].responses[i].Signature = NilBytes
  /\ EnoughApprovals(agg[self])
  /\ DealCertified(agg[self])
  /\ NumApprovals(agg[self]) = agg[self].t

\* every deal was processed and no message is left
RunOver ==
  /\ self = RunAll
  /\ net = {}
  /\ \A i \in Indices : agg[i].deal # <<>>

\* C32 (as claimed): in a run where complaints are answered by the dealer's
\* Justification and every verifier processes it, once everything is
\* delivered EnoughApprovals and DealCertified, hence whether the secret
\* commitment and the deal are released, are the same at the dealer and at
\* every verifier.
C32_CertificationAgreement ==
  RunOver =>
    \A p \in Indices :
      /\ EnoughApprovals(agg[DealerId]) = EnoughApprovals(agg[p])
      /\ DealCertified(agg[DealerId]) = DealCertified(agg[p])
      /\ (SecretCommit(dealer, agg[DealerId]) # <<>>) = (VerifierDeal(agg[p]) # <<>>)

\* the step just taken processed a response, a justification or a timeout
ResponseJustificationOrTimeout ==
  last'.op \in {"ProcessResponse", "Verifier.ProcessJustification", "SetTimeout"}

FromDealer(a, j) ==
  /\ SchnorrVerify(DealerPub, JustificationHash(j), j.Signature)
  /\ j.SessionID = a.sid

\* C34: a Justification changes a Verifier's Aggregator (upgrades a slot or
\* sets bad_dealer) only if it carries a valid dealer signature over the
\* justification hash and the bound session id.
C34_OnlyDealerJustifies ==
  IsVerifier =>
    \A j \in JustificationInputsOf[dealerT] :
      ProcessJustification(agg[self], j).a # agg[self] => FromDealer(agg[self], j)

\* C35: a Justification for index k upgrades the complaint at slot k only
\* if the deal it contains is the share of verifier k.
C35_JustifiedByOwnShare ==
  IsVerifier =>
    \A j \in JustificationInputsOf[dealerT] :
      ProcessJustification(agg[self], j).err = ErrNone => j.Deal.I = j.Index

\* C36: in every state of a Verifier's Aggregator with sid bound, every
\* stored response carries the Aggregator's session id.
C36_StoredResponsesOfSession ==
  (IsVerifier /\ agg[self].sid # <<>>) =>
    \A i \in DOMAIN agg[self].responses :
      agg[self].responses[i].SessionID = agg[self].sid

\* C37: whenever ProcessEncryptedDeal returns an error the Verifier's
\* Aggregator is unchanged, also when the verifier's own slot was filled
\* beforehand by SetTimeout or UnsafeSetResponseDKG.
C37_RefusedDealChangesNothing ==
  IsVerifier =>
    \A e \in EncryptedDealInputsOf[dealerT][self] :
      LET res == ProcessEncryptedDeal(agg[self], self, e)
      IN  res.err # ErrNone => res.a = agg[self]

\* C38: a complaint synthesized by SetTimeout for a silent verifier is never
\* upgraded to approval by a later Justification.
C38_TimeoutComplaintFinal ==
  IsVerifier =>
    \A i \in AbsentSet(agg[self]), j \in JustificationInputsOf[dealerT] :
      LET res == ProcessJustification(SetTimeout(agg[self]), j)
      IN  /\ res.a.responses[i].Status = StatusComplaint
          /\ NumApprovals(res.a) = NumApprovals(agg[self])

C40_ReturnsOutlenBytes ==
  \A m \in net :
    m.kind = "expanded" =>
      LET domain == m.body[2][1][1]
          outlen == m.body[2][1][3]
          res == m.body[2][2]
      IN  (0 <= outlen /\ outlen <= 255 * 32 /\ Len(domain) <= 255) =>
            /\ res.panic = PanicNone
            /\ Len(res.out) = outlen

====
